---- MODULE Spec2Model ----
(***************************************************************************)
(* Priority labelling service: the rule evaluator (PriorityClassifier),    *)
(* the language-model classifier (AIPriorityClassifier) and the hybrid     *)
(* selector (HybridPriorityClassifier).                                    *)
(*                                                                         *)
(* Conventions                                                             *)
(*  - JavaScript strings are TLA+ strings; includes, toLowerCase, split,   *)
(*    trim and parseInt are computed character by character.               *)
(*  - A JavaScript number that is a confidence is kept in thousandths      *)
(*    (1000 = 1.0); a missing property is the string "undefined" or the    *)
(*    number NoNumber.                                                     *)
(*  - A call's outcome is a record whose kind is "return" or "throw".      *)
(***************************************************************************)
EXTENDS Integers, Sequences, FiniteSets, TLC

VARIABLES
    pc,            \* position of the request / evaluation in progress
    config,        \* config.aiClassifierType, config.claudeApiKey, config.openaiApiKey
    thread,        \* the thread object handed to classifyThread
    strategy,      \* const strategy of HybridPriorityClassifier.classifyThread
    aiAttempt,     \* what the last AIPriorityClassifier.classifyThread call did
    primary,       \* outcome of the primary classifier call
    outcome,       \* outcome of HybridPriorityClassifier.classifyThread
    threadData,    \* argument of PriorityClassifier.classifyByRules
    rulesResult,   \* value returned by PriorityClassifier.classifyByRules
    claudeResponse,\* argument of AIPriorityClassifier.parseClaudeResponse
    parsed,        \* outcome of AIPriorityClassifier.parseClaudeResponse
    thisRules,     \* this.rules of PriorityClassifier (config.priorityRules)
    firstResult,   \* value returned by the previous classifyByRules call
    apiCalls,      \* calls of the text-generation endpoint in this request
    store,         \* the audit store: connection and rows of table tickets
    lastSave,      \* per thread id, the arguments of the last successful save
    context,       \* value returned by getHistoricalContext
    prompt,        \* value returned by buildPromptWithContext
    request,       \* the webhook request being handled
    httpResponse,  \* the HTTP response of the webhook handler
    labelCalls,    \* the calls of plainApiClient.addPriorityLabel
    comparison,    \* value returned by HybridPriorityClassifier.compareClassifiers
    pool,          \* this.pool of DatabaseService
    dbCall,        \* the last initialize call, and dbInitialized of the serverless handler
    deliveries     \* the webhook deliveries in progress in the serverless handler

vars == <<pc, config, thread, strategy, aiAttempt, primary, outcome,
          threadData, rulesResult, claudeResponse, parsed, thisRules,
          firstResult, apiCalls, store, lastSave, context, prompt,
          request, httpResponse, labelCalls,
          comparison, pool, dbCall, deliveries>>

\* the comparison, the database service and the deliveries, which only the
\* specifications of their own change
servicePart == <<comparison, pool, dbCall, deliveries>>

-----------------------------------------------------------------------------
(* Bounds of the model *)

\* how many phrases of Phrases a generated ticket text is made of, at most
MaxPhrases == 2

-----------------------------------------------------------------------------
(* JavaScript values *)

Undefined == "undefined"

NoNumber == 0 - 1

Min(a, b) == IF a <= b THEN a ELSE b

Max(a, b) == IF a >= b THEN a ELSE b

\* Array.prototype.includes on a sequence
Contains(seq, x) == \E i \in 1..Len(seq) : seq[i] = x

\* String.prototype.includes
Includes(s, k) ==
    \E i \in 1..(Len(s) - Len(k) + 1) : SubSeq(s, i, i + Len(k) - 1) = k

UpperToLower ==
    ("A" :> "a") @@ ("B" :> "b") @@ ("C" :> "c") @@ ("D" :> "d") @@ ("E" :> "e") @@
    ("F" :> "f") @@ ("G" :> "g") @@ ("H" :> "h") @@ ("I" :> "i") @@ ("J" :> "j") @@
    ("K" :> "k") @@ ("L" :> "l") @@ ("M" :> "m") @@ ("N" :> "n") @@ ("O" :> "o") @@
    ("P" :> "p") @@ ("Q" :> "q") @@ ("R" :> "r") @@ ("S" :> "s") @@ ("T" :> "t") @@
    ("U" :> "u") @@ ("V" :> "v") @@ ("W" :> "w") @@ ("X" :> "x") @@ ("Y" :> "y") @@
    ("Z" :> "z")

RECURSIVE toLowerCase(_)
\* String.prototype.toLowerCase
toLowerCase(s) ==
    IF s = "" THEN ""
    ELSE LET c == SubSeq(s, 1, 1)
         IN (IF c \in DOMAIN UpperToLower THEN UpperToLower[c] ELSE c)
            \o toLowerCase(SubSeq(s, 2, Len(s)))

IsSpace(c) == c \in {" ", "\t", "\n", "\r"}

RECURSIVE trimStart(_)
trimStart(s) ==
    IF s # "" /\ IsSpace(SubSeq(s, 1, 1)) THEN trimStart(SubSeq(s, 2, Len(s))) ELSE s

RECURSIVE trimEnd(_)
trimEnd(s) ==
    IF s # "" /\ IsSpace(SubSeq(s, Len(s), Len(s)))
    THEN trimEnd(SubSeq(s, 1, Len(s) - 1)) ELSE s

\* String.prototype.trim
trim(s) == trimEnd(trimStart(s))

-----------------------------------------------------------------------------
(* config.priorityRules *)

priorityRules ==
    [P0 |-> [keywords |-> <<"down", "outage", "critical", "emergency", "urgent",
                           "broken", "crash", "security breach", "data loss",
                           "payment failed", "cannot login", "site down",
                           "server error", "production issue">>,
             customerTiers |-> <<"custom", "pro", "hobby">>,
             timeThresholds |-> [created |-> 0, response |-> 60 * 15]],
     P1 |-> [keywords |-> <<"bug", "error", "issue", "problem", "not working",
                           "feature request", "integration", "api", "billing",
                           "account", "performance">>,
             customerTiers |-> <<"custom", "pro", "hobby", "trial">>,
             timeThresholds |-> [created |-> 60 * 60 * 4, response |-> 60 * 60 * 8]],
     P2 |-> [keywords |-> <<"question", "help", "how to", "clarification",
                           "documentation", "training", "onboarding",
                           "best practice", "recommendation">>,
             customerTiers |-> <<"custom", "pro", "hobby", "trial">>,
             timeThresholds |-> [created |-> 60 * 60 * 24, response |-> 60 * 60 * 24]],
     P3 |-> [keywords |-> <<"feedback", "suggestion", "enhancement", "nice to have",
                           "cosmetic", "minor", "improvement", "general inquiry">>,
             customerTiers |-> <<"custom", "pro", "hobby", "trial">>,
             timeThresholds |-> [created |-> 60 * 60 * 72, response |-> 60 * 60 * 72]]]

\* the key order of the scores object and of Object.entries(this.rules)
BandOrder == <<"P0", "P1", "P2", "P3">>

BandSet == {"P0", "P1", "P2", "P3"}

-----------------------------------------------------------------------------
(* PriorityClassifier.classifyByRules *)

\* A ticket age, (Date.now() - createdAt) in seconds; nan when createdAt is an
\* Invalid Date.  hoursOld > response / 3600 is false for NaN.
IsOverdue(hoursSinceCreated, rules) ==
    /\ ~hoursSinceCreated.nan
    /\ hoursSinceCreated.sec > rules.timeThresholds.response

\* a keyword test that asks for the whole text to be the keyword
keywordMatchesWholeText(content, rules) ==
    SelectSeq(rules.keywords, LAMBDA keyword : content = toLowerCase(keyword))

keywordMatches(content, rules) ==
    SelectSeq(rules.keywords, LAMBDA keyword : Includes(content, toLowerCase(keyword)))

\* score = 0; score += 0.5 + n * 0.1; score += 0.3; score += 0.2 in IEEE-754
\* doubles, in thousandths.  Every sum is the exact decimal except
\* (0.5 + 0.1) + 0.3 and (0.5 + 0.2) + 0.2, which are 0.8999999999999999, one
\* ulp below 0.5 + 0.4 = 0.9: 899 stands for that double.
DoubleSum(k, t, o) ==
    IF k + t + o = 900 /\ k # 900 THEN 899 ELSE k + t + o

\* a keyword score that forgets the base 0.5
KeywordScoreNoBase(content, rules) ==
    Len(keywordMatches(content, rules)) * 100

KeywordScore(content, rules) ==
    LET n == Len(keywordMatches(content, rules))
    IN IF n > 0 THEN 500 + n * 100 ELSE 0

\* a tier test that looks the tier up in the wrong list
TierScoreWrongList(customerTier, rules) ==
    IF Contains(rules.keywords, customerTier) THEN 300 ELSE 0

TierScore(customerTier, rules) ==
    IF Contains(rules.customerTiers, customerTier) THEN 300 ELSE 0

OverdueScore(hoursSinceCreated, rules) ==
    IF IsOverdue(hoursSinceCreated, rules) THEN 200 ELSE 0

\* a score that is added to the score the previous call left for the band
BandScoreAccumulated(data, rules) ==
    LET previous == rulesResult.scores[CHOOSE b \in BandSet : thisRules[b] = rules]
    IN Min(Max(previous, 0)
             + DoubleSum(KeywordScore(data.content, rules),
                         TierScore(data.customer.tier, rules),
                         OverdueScore(data.timing.hoursSinceCreated, rules)),
           1000)

\* scores[priority] = Math.min(score, 1.0)
BandScore(data, rules) ==
    Min(DoubleSum(KeywordScore(data.content, rules),
                  TierScore(data.customer.tier, rules),
                  OverdueScore(data.timing.hoursSinceCreated, rules)),
        1000)

\* for (const [priority, rules] of Object.entries(this.rules))
RuleScores(data) == [p \in BandSet |-> BandScore(data, thisRules[p])]

\* Math.max(...Object.values(scores))
MaxScore(scores) ==
    CHOOSE m \in {scores[p] : p \in BandSet} : \A p \in BandSet : scores[p] <= m

\* the last band with the maximum instead of the first
FindLastWinner(scores, maxScore) ==
    IF \E i \in 1..Len(BandOrder) : scores[BandOrder[i]] = maxScore
    THEN BandOrder[CHOOSE i \in 1..Len(BandOrder) :
                      /\ scores[BandOrder[i]] = maxScore
                      /\ \A j \in (i + 1)..Len(BandOrder) : scores[BandOrder[j]] # maxScore]
    ELSE Undefined

\* Object.keys(scores).find(p => scores[p] === maxScore)
FindWinner(scores, maxScore) ==
    IF \E i \in 1..Len(BandOrder) : scores[BandOrder[i]] = maxScore
    THEN BandOrder[CHOOSE i \in 1..Len(BandOrder) :
                      /\ scores[BandOrder[i]] = maxScore
                      /\ \A j \in 1..(i - 1) : scores[BandOrder[j]] # maxScore]
    ELSE Undefined

classifyByRules(data) ==
    LET scores == RuleScores(data)
        maxScore == MaxScore(scores)
        winningPriority == FindWinner(scores, maxScore)
    IN [priority |-> IF winningPriority # Undefined THEN winningPriority ELSE "P2",
        confidence |-> maxScore,
        method |-> "rules",
        scores |-> scores,
        details |-> [contentLength |-> Len(data.content),
                     customerTier |-> data.customer.tier,
                     hoursOld |-> data.timing.hoursSinceCreated]]

-----------------------------------------------------------------------------
(* Ticket facts the rule evaluator is applied to *)

Phrases ==
    <<"site down", "urgent crash", "api billing account bug", "error",
      "how to", "question help", "minor", "thanks">>

RECURSIVE JoinPhrases(_, _)
\* the phrases picked by S, in the order of Phrases, joined by blanks
JoinPhrases(S, i) ==
    IF i > Len(Phrases) THEN ""
    ELSE LET rest == JoinPhrases(S, i + 1)
         IN IF i \notin S THEN rest
            ELSE IF rest = "" THEN Phrases[i] ELSE Phrases[i] \o " " \o rest

GeneratedTexts ==
    {JoinPhrases(S, 1) :
        S \in {T \in SUBSET (1..Len(Phrases)) : Cardinality(T) <= MaxPhrases}}

ScenarioTexts ==
    {"How do I export my data?",
     "The site is completely down for everyone",
     "hey thanks!",
     "URGENT: Server Error, cannot login"}

TicketTexts == GeneratedTexts \cup ScenarioTexts

TierNames == {"custom", "pro", "hobby", "trial", "enterprise"}

Hour == 60 * 60

\* createdAt in the future, now, at and just past the P0 threshold, 10 h, 25 h, 80 h
AgesSec == {0 - Hour, 0, 60 * 15, 60 * 15 + 1, 10 * Hour, 25 * Hour, 80 * Hour}

Ages == {[nan |-> FALSE, sec |-> s] : s \in AgesSec} \cup {[nan |-> TRUE, sec |-> 0]}

NoThreadData ==
    [content |-> "", customer |-> [tier |-> Undefined],
     timing |-> [hoursSinceCreated |-> [nan |-> FALSE, sec |-> 0]]]

NoRulesResult ==
    [priority |-> Undefined, confidence |-> NoNumber, method |-> Undefined,
     scores |-> [p \in BandSet |-> NoNumber],
     details |-> [contentLength |-> 0, customerTier |-> Undefined,
                  hoursOld |-> [nan |-> FALSE, sec |-> 0]]]

-----------------------------------------------------------------------------
(* The rule evaluator applied to ticket facts *)

InitRules ==
    /\ pc = "facts"
    /\ threadData \in
         {[content |-> toLowerCase(text), customer |-> [tier |-> tier],
           timing |-> [hoursSinceCreated |-> age]] :
             text \in TicketTexts, tier \in TierNames, age \in Ages}
    /\ rulesResult = NoRulesResult
    /\ config = Undefined
    /\ thread = Undefined
    /\ strategy = Undefined
    /\ aiAttempt = Undefined
    /\ primary = Undefined
    /\ outcome = Undefined
    /\ claudeResponse = ""
    /\ parsed = Undefined
    /\ thisRules = priorityRules
    /\ firstResult = NoRulesResult
    /\ apiCalls = Undefined
    /\ store = Undefined
    /\ lastSave = Undefined
    /\ context = Undefined
    /\ prompt = Undefined
    /\ request = Undefined
    /\ httpResponse = Undefined
    /\ labelCalls = Undefined
    /\ comparison = Undefined
    /\ pool = Undefined
    /\ dbCall = Undefined
    /\ deliveries = Undefined

\* one call of classifyByRules; the facts stay available for a second call
ClassifyByRules ==
    /\ pc \in {"facts", "evaluated"}
    /\ firstResult' = rulesResult
    /\ rulesResult' = classifyByRules(threadData)
    /\ pc' = IF pc = "facts" THEN "evaluated" ELSE "repeated"
    /\ UNCHANGED <<config, thread, strategy, aiAttempt, primary, outcome,
                   threadData, claudeResponse, parsed,
                   thisRules, apiCalls, store, lastSave,
                   context, prompt, request, httpResponse, labelCalls, servicePart>>

NextRules == ClassifyByRules

SpecRules == InitRules /\ [][NextRules]_vars

-----------------------------------------------------------------------------
(* AIPriorityClassifier.parseClaudeResponse *)

Return(v) == [kind |-> "return", value |-> v, error |-> Undefined]

Throw(v, message) == [kind |-> "throw", value |-> v, error |-> message]

RECURSIVE Split(_, _)
\* String.prototype.split with a one-character separator
Split(s, sep) ==
    IF \E i \in 1..Len(s) : SubSeq(s, i, i) = sep
    THEN LET i == CHOOSE k \in 1..Len(s) :
                     /\ SubSeq(s, k, k) = sep
                     /\ \A j \in 1..(k - 1) : SubSeq(s, j, j) # sep
         IN <<SubSeq(s, 1, i - 1)>> \o Split(SubSeq(s, i + 1, Len(s)), sep)
    ELSE <<s>>

RECURSIVE Join(_, _)
\* Array.prototype.join
Join(parts, sep) ==
    IF parts = <<>> THEN ""
    ELSE IF Len(parts) = 1 THEN parts[1]
    ELSE parts[1] \o sep \o Join(Tail(parts), sep)

DigitValue ==
    ("0" :> 0) @@ ("1" :> 1) @@ ("2" :> 2) @@ ("3" :> 3) @@ ("4" :> 4) @@
    ("5" :> 5) @@ ("6" :> 6) @@ ("7" :> 7) @@ ("8" :> 8) @@ ("9" :> 9)

RECURSIVE DigitPrefix(_, _, _)
\* the value of the longest prefix of digits of s; seen is FALSE when it is empty
DigitPrefix(s, acc, seen) ==
    IF s # "" /\ SubSeq(s, 1, 1) \in DOMAIN DigitValue
    THEN DigitPrefix(SubSeq(s, 2, Len(s)), acc * 10 + DigitValue[SubSeq(s, 1, 1)], TRUE)
    ELSE [nan |-> ~seen, val |-> acc]

\* parseInt(string): leading white space, an optional sign, then digits
parseInt(str) ==
    LET s == trimStart(str)
        signed == s # "" /\ SubSeq(s, 1, 1) \in {"-", "+"}
        d == DigitPrefix(IF signed THEN SubSeq(s, 2, Len(s)) ELSE s, 0, FALSE)
    IN IF d.nan THEN [nan |-> TRUE, val |-> 0]
       ELSE IF signed /\ SubSeq(s, 1, 1) = "-" THEN [nan |-> FALSE, val |-> 0 - d.val]
       ELSE d

expectedBands ==
    [P0 |-> <<0, 150>>, P1 |-> <<151, 400>>, P2 |-> <<401, 700>>, P3 |-> <<701, 1000>>]

EmptyParse ==
    [priorityScore |-> NoNumber, priorityBand |-> Undefined, reasoning |-> Undefined]

\* one turn of the for loop over the lines
ParseLine(result, line) ==
    IF Includes(line, "priority_score:")
    THEN LET score == parseInt(trim(Split(line, ":")[2]))
         IN IF ~score.nan /\ score.val >= 0 /\ score.val <= 1000
            THEN [result EXCEPT !.priorityScore = score.val]
            ELSE result
    ELSE IF Includes(line, "priority_band:")
    THEN LET band == trim(Split(line, ":")[2])
         IN IF Contains(BandOrder, band)
            THEN [result EXCEPT !.priorityBand = band]
            ELSE result
    ELSE IF Includes(line, "reasoning:")
    THEN [result EXCEPT !.reasoning = trim(Join(Tail(Split(line, ":")), ":"))]
    ELSE result

RECURSIVE ParseLines(_, _)
ParseLines(result, lines) ==
    IF lines = <<>> THEN result
    ELSE ParseLines(ParseLine(result, Head(lines)), Tail(lines))

\* !result.priorityScore || !result.priorityBand
MissingRequiredFields(result) ==
    \/ result.priorityScore = NoNumber
    \/ result.priorityScore = 0
    \/ result.priorityBand = Undefined

\* a parser that keeps the score it has read
AdjustScoreKept(result) == result

\* result.priorityScore = Math.max(min, Math.min(max, result.priorityScore))
AdjustScore(result) ==
    LET min == expectedBands[result.priorityBand][1]
        max == expectedBands[result.priorityBand][2]
    IN IF result.priorityScore < min \/ result.priorityScore > max
       THEN [result EXCEPT !.priorityScore = Max(min, Min(max, result.priorityScore))]
       ELSE result

parseClaudeResponse(response) ==
    LET lines == SelectSeq(Split(response, "\n"), LAMBDA line : trim(line) # "")
        result == ParseLines(EmptyParse, lines)
    IN IF MissingRequiredFields(result)
       THEN Throw(EmptyParse,
                  "Unable to parse Claude response: Missing required fields in Claude response")
       ELSE Return(AdjustScore(result))

-----------------------------------------------------------------------------
(* Responses of the text-generation endpoint *)

ScoreSamples == {0 - 5, 0, 1, 150, 151, 400, 401, 575, 700, 701, 900, 1000, 1001, 1500}

\* the format the prompt asks for, and the same fields in a bulleted answer
FormatResponse(layout, score, band) ==
    IF layout = "exact"
    THEN "priority_score: " \o ToString(score) \o "\npriority_band: " \o band
         \o "\nreasoning: Full outage: all users are blocked"
    ELSE "Here is my assessment:\n\n- priority_band: " \o band
         \o "\n- priority_score: " \o ToString(score) \o "\n"

Layouts == {"exact", "bulleted"}

WellFormedResponses ==
    {FormatResponse(l, s, b) : l \in Layouts, s \in ScoreSamples, b \in BandSet}

MalformedResponses ==
    {"",
     "I am unable to classify this ticket.",
     "priority_band: P2\nreasoning: no score given",
     "priority_score: 575\nreasoning: no band given",
     "priority_score: 575\npriority_band: P5",
     "priority_score: high\npriority_band: P1",
     "**priority_score:** 575\n**priority_band:** P2",
     "priority_score: 575\npriority_band: P2 (moderate)"}

Responses == WellFormedResponses \cup MalformedResponses

NoParse == [kind |-> Undefined, value |-> EmptyParse, error |-> Undefined]

InitParse ==
    /\ pc = "response"
    /\ claudeResponse \in Responses
    /\ parsed = NoParse
    /\ config = Undefined
    /\ thread = Undefined
    /\ strategy = Undefined
    /\ aiAttempt = Undefined
    /\ primary = Undefined
    /\ outcome = Undefined
    /\ threadData = NoThreadData
    /\ rulesResult = NoRulesResult
    /\ thisRules = priorityRules
    /\ firstResult = Undefined
    /\ apiCalls = Undefined
    /\ store = Undefined
    /\ lastSave = Undefined
    /\ context = Undefined
    /\ prompt = Undefined
    /\ request = Undefined
    /\ httpResponse = Undefined
    /\ labelCalls = Undefined
    /\ comparison = Undefined
    /\ pool = Undefined
    /\ dbCall = Undefined
    /\ deliveries = Undefined

ParseClaudeResponse ==
    /\ pc = "response"
    /\ parsed' = parseClaudeResponse(claudeResponse)
    /\ pc' = "parsed"
    /\ UNCHANGED <<config, thread, strategy, aiAttempt, primary, outcome,
                   threadData, rulesResult, claudeResponse,
                   thisRules, firstResult, apiCalls, store, lastSave,
                   context, prompt, request, httpResponse, labelCalls, servicePart>>

NextParse == ParseClaudeResponse

SpecParse == InitParse /\ [][NextParse]_vars

-----------------------------------------------------------------------------
(* JavaScript values of mixed type: a property that may be undefined, a     *)
(* string, an array of message components or a number                      *)

JsUndef == [type |-> "undefined", text |-> "", items |-> <<>>]

JsStr(s) == [type |-> "string", text |-> s, items |-> <<>>]

\* an array of message components, each given by its text property
JsArr(items) == [type |-> "array", text |-> "", items |-> items]

JsNum(digits) == [type |-> "number", text |-> digits, items |-> <<>>]

Truthy(v) ==
    \/ v.type = "array"
    \/ v.type = "string" /\ v.text # ""
    \/ v.type = "number" /\ v.text # "0"

\* a || b
OrElse(a, b) == IF Truthy(a) THEN a ELSE b

-----------------------------------------------------------------------------
(* Classification results *)

ConfUndefined == [type |-> "undefined", num |-> 0, str |-> ""]

ConfNumber(n) == [type |-> "number", num |-> n, str |-> ""]

ConfString(c) == [type |-> "string", num |-> 0, str |-> c]

NoAiResult ==
    [present |-> FALSE, priority |-> Undefined, confidence |-> NoNumber, method |-> Undefined]

\* an object none of whose properties is set
EmptyResult ==
    [priorityScore |-> NoNumber, priorityBand |-> Undefined, priority |-> Undefined,
     confidence |-> ConfUndefined, method |-> Undefined, reasoning |-> Undefined,
     error |-> Undefined, rulesResult |-> NoRulesResult, aiResult |-> NoAiResult,
     historicalContextUsed |-> NoNumber, hybridStrategy |-> Undefined,
     fallbackUsed |-> Undefined, classifier |-> Undefined]

TypeErrorMessage == "toLowerCase is not a function"

-----------------------------------------------------------------------------
(* PriorityClassifier.classifyThread *)

RECURSIVE ComponentsText(_)
\* for (const component of message.content) if (component.text) text += component.text + ' '
ComponentsText(items) ==
    IF items = <<>> THEN ""
    ELSE (IF Head(items) # "" THEN Head(items) \o " " ELSE "") \o ComponentsText(Tail(items))

extractTextFromMessage(message) ==
    IF ~Truthy(message.content) THEN ""
    ELSE IF message.content.type = "array" THEN trim(ComponentsText(message.content.items))
    ELSE IF message.content.type = "string" THEN trim(message.content.text)
    ELSE ""

\* thread?.tier?.name, lower-cased, or 'hobby'; a name that is no string has
\* no toLowerCase
determineCustomerTier(t) ==
    IF t.tier.present /\ Truthy(t.tier.name)
    THEN IF t.tier.name.type = "string"
         THEN Return(toLowerCase(t.tier.name.text))
         ELSE Throw("", TypeErrorMessage)
    ELSE Return("hobby")

\* (Date.now() - new Date(thread.createdAt?.iso8601 || Date.now())) in seconds
HoursSinceCreated(t) ==
    IF t.createdAt.kind = "invalid" THEN [nan |-> TRUE, sec |-> 0]
    ELSE IF t.createdAt.kind = "iso" THEN [nan |-> FALSE, sec |-> t.createdAt.age]
    ELSE [nan |-> FALSE, sec |-> 0]

extractThreadData(t) ==
    LET text0 == IF Truthy(t.allMessageContent) THEN t.allMessageContent.text
                 ELSE IF t.firstMessage.present THEN extractTextFromMessage(t.firstMessage)
                 ELSE ""
        textContent == IF /\ Truthy(t.title)
                          /\ t.title # JsStr("No preview")
                          /\ t.title # t.previewText
                       THEN trim(text0 \o " " \o t.title.text)
                       ELSE text0
        customerTier == determineCustomerTier(t)
    IN IF Truthy(t.allMessageContent) /\ t.allMessageContent.type # "string"
       THEN Throw(NoThreadData, "textContent.substring is not a function")
       ELSE IF customerTier.kind = "throw"
       THEN Throw(NoThreadData, customerTier.error)
       ELSE Return([content |-> toLowerCase(textContent),
                    customer |-> [tier |-> customerTier.value],
                    timing |-> [hoursSinceCreated |-> HoursSinceCreated(t)]])

\* the stub of the optional AI enhancement
classifyByAI(cfg) ==
    IF cfg.openaiApiKey = Undefined THEN NoAiResult
    ELSE [present |-> TRUE, priority |-> "P2", confidence |-> 500, method |-> "ai"]

combineClassifications(rules, ai) ==
    IF ~ai.present
    THEN [EmptyResult EXCEPT !.priority = rules.priority,
                             !.confidence = ConfNumber(rules.confidence),
                             !.method = rules.method,
                             !.rulesResult = rules]
    ELSE [EmptyResult EXCEPT
             !.priority = IF rules.confidence >= ai.confidence
                          THEN rules.priority ELSE ai.priority,
             !.confidence = ConfNumber((rules.confidence * 7 + ai.confidence * 3) \div 10),
             !.method = "combined",
             !.rulesResult = rules,
             !.aiResult = ai]

RulesClassifyThread(t, cfg) ==
    LET data == extractThreadData(t)
    IN IF data.kind = "throw"
       THEN Return([EmptyResult EXCEPT !.priority = "P2",
                                       !.confidence = ConfNumber(100),
                                       !.method = "fallback",
                                       !.error = data.error])
       ELSE LET rules == classifyByRules(data.value)
                ai == IF cfg.openaiApiKey # Undefined /\ rules.confidence < 800
                      THEN classifyByAI(cfg) ELSE NoAiResult
            IN Return(combineClassifications(rules, ai))

-----------------------------------------------------------------------------
(* DatabaseService.getRecentTickets and the historical context *)

slidingWindowSize == 12

\* SELECT thread_id, priority_band, priority_score, reasoning FROM tickets
SelectedColumns(row) ==
    [thread_id |-> row.thread_id, priority_band |-> row.priority_band,
     priority_score |-> row.priority_score, reasoning |-> row.reasoning]

\* a fetch that hands out the rows whatever the state of the connection
getRecentTicketsUnguarded(db, limit) ==
    [null |-> FALSE,
     rows |-> [i \in 1..Min(limit, Len(db.rows)) |-> SelectedColumns(db.rows[i])]]

\* rows of the SELECT: thread_id, priority_band, priority_score, reasoning,
\* newest first; null when the store is not connected or the query throws
getRecentTickets(db, limit) ==
    IF ~db.isConnected \/ db.queryFails
    THEN [null |-> TRUE, rows |-> <<>>]
    ELSE [null |-> FALSE,
          rows |-> [i \in 1..Min(limit, Len(db.rows)) |-> SelectedColumns(db.rows[i])]]

truncateMessage(message) ==
    IF message = "" \/ Len(message) <= 200 THEN message
    ELSE SubSeq(message, 1, 200) \o "..."

\* the rows carry no first_message column: ticket.first_message || '' is ''
getHistoricalContext(db, limit) ==
    LET recentTickets == getRecentTickets(db, limit)
    IN IF recentTickets.null \/ recentTickets.rows = <<>> THEN <<>>
       ELSE [i \in 1..Len(recentTickets.rows) |->
                [example_number |-> i,
                 first_message |-> truncateMessage(""),
                 priority_score |-> recentTickets.rows[i].priority_score,
                 priority_band |-> recentTickets.rows[i].priority_band,
                 reasoning |-> IF recentTickets.rows[i].reasoning # ""
                               THEN recentTickets.rows[i].reasoning
                               ELSE "No reasoning provided"]]

-----------------------------------------------------------------------------
(* DatabaseService.saveTicket and getTicket *)

\* a number that may be NaN
Num(n) == [nan |-> FALSE, num |-> n]

NaN == [nan |-> TRUE, num |-> 0]

\* does table tickets hold a row for the thread id
HasRow(rows, threadId) == \E i \in 1..Len(rows) : rows[i].thread_id = threadId

\* the INSERT is not refused: the query reaches the store, thread_id and
\* first_message are NOT NULL, priority_score is an integer
SaveSucceeds(db, args) ==
    /\ db.isConnected
    /\ ~db.queryFails
    /\ args.threadId # Undefined
    /\ args.firstMessage # Undefined
    /\ ~args.priorityScore.nan

\* INSERT without the ON CONFLICT clause: a second row for the thread id
saveTicketInsertOnly(db, args) ==
    IF ~SaveSucceeds(db, args) THEN db
    ELSE [db EXCEPT !.rows =
             <<[thread_id |-> args.threadId, first_message |-> args.firstMessage,
                priority_score |-> args.priorityScore.num,
                priority_band |-> args.priorityBand,
                reasoning |-> args.reasoning]>> \o db.rows]

\* INSERT ... ON CONFLICT (thread_id) DO UPDATE SET priority_score,
\* priority_band, reasoning; rows are kept newest first (created_at DESC)
saveTicket(db, args) ==
    IF ~SaveSucceeds(db, args) THEN db
    ELSE IF HasRow(db.rows, args.threadId)
    THEN [db EXCEPT !.rows =
             [i \in 1..Len(db.rows) |->
                 IF db.rows[i].thread_id = args.threadId
                 THEN [db.rows[i] EXCEPT !.priority_score = args.priorityScore.num,
                                         !.priority_band = args.priorityBand,
                                         !.reasoning = args.reasoning]
                 ELSE db.rows[i]]]
    ELSE [db EXCEPT !.rows =
             <<[thread_id |-> args.threadId, first_message |-> args.firstMessage,
                priority_score |-> args.priorityScore.num,
                priority_band |-> args.priorityBand,
                reasoning |-> args.reasoning]>> \o db.rows]

\* SELECT * FROM tickets WHERE thread_id = $1; null when there is no row, the
\* store is not connected or the query throws
getTicket(db, threadId) ==
    IF ~db.isConnected \/ db.queryFails \/ ~HasRow(db.rows, threadId)
    THEN [null |-> TRUE, thread_id |-> Undefined]
    ELSE [null |-> FALSE, thread_id |-> threadId]

RECURSIVE ContextExamples(_)
\* historicalContext.forEach((ticket) => { contextSection += ... })
ContextExamples(examples) ==
    IF examples = <<>> THEN ""
    ELSE "Example " \o ToString(Head(examples).example_number) \o ":\n"
         \o "Ticket: \"" \o Head(examples).first_message \o "\"\n"
         \o "priority_score: " \o ToString(Head(examples).priority_score) \o "\n"
         \o "priority_band: " \o Head(examples).priority_band \o "\n"
         \o "reasoning: " \o Head(examples).reasoning \o "\n\n"
         \o ContextExamples(Tail(examples))

buildPromptWithContext(firstMessage, examples) ==
    LET basePrompt ==
            "You are an expert customer support triage analyst. When given the first message of a support ticket, assign an integer priority_score from 0 to 1000, a priority_band (P0, P1, P2, P3) based on these rules:\n\n"
            \o "- P0: Critical outage, company-wide or many users blocked (score: 0-150)\n"
            \o "- P1: Major issue, multiple users impacted but workaround may exist (151-400)\n"
            \o "- P2: Moderate, minor feature broken or single user (401-700)\n"
            \o "- P3: Low, no operational impact, general question, or feature request (701-1000)\n\n"
            \o "For each ticket, output:\n- priority_score: number\n- priority_band: string (P0-P3)\n"
            \o "- reasoning: short explanation for your decision"
        contextSection ==
            IF Len(examples) > 0
            THEN "\n\nHere are recent ticket classifications from this system for context and consistency:\n\n"
                 \o ContextExamples(examples)
                 \o "Please maintain consistency with these recent classifications while applying the priority rules.\n"
            ELSE ""
        staticExamples ==
            "\nHere are some reference examples:\n\n"
            \o "Ticket: \"The entire payments system is down for all customers.\"\n"
            \o "priority_score: 25\npriority_band: P0\n"
            \o "reasoning: Full outage of payments impacts all users; requires immediate attention.\n\n"
            \o "Ticket: \"My reports page failed to load this morning, but worked later.\"\n"
            \o "priority_score: 575\npriority_band: P2\n"
            \o "reasoning: Intermittent minor failure, affected one user, now resolved."
        evaluationSection ==
            "\n---\nNow evaluate this ticket:\nTicket: \"" \o firstMessage \o "\"\n\n"
            \o "Please provide your response in this exact format:\n"
            \o "priority_score: [number]\npriority_band: [P0/P1/P2/P3]\nreasoning: [short explanation]"
    IN basePrompt \o contextSection \o staticExamples \o evaluationSection

-----------------------------------------------------------------------------
(* AIPriorityClassifier.classifyThread *)

\* !thread.firstMessage?.textContent && !thread.firstMessage?.content
NoMessageContent(t) ==
    ~(t.firstMessage.present
      /\ (Truthy(t.firstMessage.textContent) \/ Truthy(t.firstMessage.content)))

\* thread.firstMessage?.textContent || thread.firstMessage?.content || ''
MessageOf(t) ==
    IF t.firstMessage.present
    THEN OrElse(OrElse(t.firstMessage.textContent, t.firstMessage.content), JsStr(""))
    ELSE JsStr("")

\* a call of the endpoint that does not wait for the input validation
ApiInvokedUnvalidated(t) == TRUE

\* the text-generation endpoint is reached only after the input validation
ApiInvoked(t) == ~NoMessageContent(t)

\* callClaudeAPI posts one request and rethrows its error: no retry
ApiCallsOf(t) == IF ApiInvoked(t) THEN 1 ELSE 0

\* the error thrown inside the try block, Undefined when every step succeeds
AIFailure(t, api) ==
    IF NoMessageContent(t) THEN "No message content available for classification"
    ELSE IF api.kind = "error" THEN api.text
    ELSE parseClaudeResponse(api.text).error

\* a keyword fallback that reports the method without the word fallback
getFallbackClassificationKeywords(t, message) ==
    Return([EmptyResult EXCEPT !.priorityScore = 500, !.priorityBand = "P2",
                               !.confidence = ConfString("low"),
                               !.method = "keywords", !.error = message])

getFallbackClassification(t, message) ==
    IF MessageOf(t).type # "string" THEN Throw(EmptyResult, TypeErrorMessage)
    ELSE LET text == toLowerCase(MessageOf(t).text)
             criticalKeywords == <<"down", "outage", "critical", "emergency", "broken", "crash">>
             highKeywords == <<"bug", "error", "issue", "problem", "not working", "failed">>
             lowKeywords == <<"question", "help", "how to", "feature request", "suggestion">>
             Some(keywords) == \E i \in 1..Len(keywords) : Includes(text, keywords[i])
             base == [EmptyResult EXCEPT !.confidence = ConfString("low"),
                                         !.method = "fallback-keywords",
                                         !.error = message]
         IN Return(
              IF Some(criticalKeywords)
              THEN [base EXCEPT !.priorityScore = 100, !.priorityBand = "P0",
                     !.reasoning = "Contains critical keywords, classified as high priority"]
              ELSE IF Some(highKeywords)
              THEN [base EXCEPT !.priorityScore = 300, !.priorityBand = "P1",
                     !.reasoning = "Contains issue keywords, classified as medium-high priority"]
              ELSE IF Some(lowKeywords)
              THEN [base EXCEPT !.priorityScore = 800, !.priorityBand = "P3",
                     !.reasoning = "Contains general inquiry keywords, classified as low priority"]
              ELSE [base EXCEPT !.priorityScore = 500, !.priorityBand = "P2",
                     !.reasoning = "Fallback classification due to AI unavailability"])

AIClassifyThread(t, db, api) ==
    LET failure == AIFailure(t, api)
    IN IF failure # Undefined THEN getFallbackClassification(t, failure)
       ELSE LET classification == parseClaudeResponse(api.text).value
                historicalContext == getHistoricalContext(db, slidingWindowSize)
            IN Return([EmptyResult EXCEPT
                         !.priorityScore = classification.priorityScore,
                         !.priorityBand = classification.priorityBand,
                         !.reasoning = IF classification.reasoning \notin {Undefined, ""}
                                       THEN classification.reasoning
                                       ELSE "AI-powered classification",
                         !.confidence = ConfString("high"),
                         !.method = "ai-claude",
                         !.historicalContextUsed = Len(historicalContext)])

\* what the call did, for the properties
AttemptOf(t, api) ==
    [ran |-> TRUE,
     apiCalled |-> ApiInvoked(t),
     apiFailed |-> ApiInvoked(t) /\ api.kind = "error",
     error |-> AIFailure(t, api)]

NoAttempt == [ran |-> FALSE, apiCalled |-> FALSE, apiFailed |-> FALSE, error |-> Undefined]

-----------------------------------------------------------------------------
(* HybridPriorityClassifier *)

\* this.apiKey = config.claudeApiKey || config.openaiApiKey; isAvailable()
isAvailable(cfg) == cfg.claudeApiKey # Undefined \/ cfg.openaiApiKey # Undefined

\* this.classifierType = config.aiClassifierType || 'ai'
ClassifierType(cfg) ==
    IF cfg.aiClassifierType # Undefined THEN cfg.aiClassifierType ELSE "ai"

\* String(message) as a regular expression sees it
StringOf(v) ==
    IF v.type = "array"
    THEN Join([i \in 1..Len(v.items) |-> "[object Object]"], ",")
    ELSE v.text

StartsWith(s, prefix) == Len(s) >= Len(prefix) /\ SubSeq(s, 1, Len(prefix)) = prefix

\* /^(hi|hello|hey|thanks)/i
IsGreeting(s) ==
    \E g \in {"hi", "hello", "hey", "thanks"} : StartsWith(toLowerCase(s), g)

\* /\?(.*\?)/ : two question marks with no line break between them
HasTwoQuestionMarks(s) ==
    \E i \in 1..Len(s) : \E j \in (i + 1)..Len(s) :
        /\ SubSeq(s, i, i) = "?" /\ SubSeq(s, j, j) = "?"
        /\ \A k \in (i + 1)..(j - 1) : SubSeq(s, k, k) \notin {"\n", "\r"}

\* message.length < n; undefined < n is false
LengthBelow(v, n) ==
    \/ v.type = "string" /\ Len(v.text) < n
    \/ v.type = "array" /\ Len(v.items) < n

\* a simple-case test that knows the question indicator only
IsSimpleCaseQuestionsOnly(message) ==
    HasTwoQuestionMarks(StringOf(message)) /\ LengthBelow(message, 100)

IsSimpleCase(message) ==
    \/ LengthBelow(message, 50)
    \/ IsGreeting(StringOf(message))
    \/ HasTwoQuestionMarks(StringOf(message)) /\ LengthBelow(message, 100)

\* a selector that does not ask whether the AI classifier is available
determineClassifierStrategyUnchecked(t, cfg) ==
    IF ClassifierType(cfg) = "rules" THEN "rules" ELSE "ai"

determineClassifierStrategy(t, cfg) ==
    IF ClassifierType(cfg) = "ai"
    THEN IF isAvailable(cfg) THEN "ai" ELSE "rules"
    ELSE IF ClassifierType(cfg) = "rules" THEN "rules"
    ELSE IF ~isAvailable(cfg) THEN "rules"
    ELSE IF IsSimpleCase(MessageOf(t)) THEN "rules"
    ELSE "ai"

\* { ...result, hybridStrategy: strategy, fallbackUsed, classifier: 'hybrid' }
Enhance(result, strat, fallbackUsed) ==
    [result EXCEPT !.hybridStrategy = strat,
                   !.fallbackUsed = IF fallbackUsed THEN "true" ELSE "false",
                   !.classifier = "hybrid"]

\* the last resort of the outer catch
LastResort(message) ==
    Return([EmptyResult EXCEPT !.priorityScore = 500, !.priorityBand = "P2",
                               !.reasoning = "Classification failed: " \o message,
                               !.confidence = ConfString("none"),
                               !.method = "error-fallback",
                               !.classifier = "hybrid",
                               !.error = message])

\* a failure of the primary classifier that is passed on to the caller
HandleFailureRethrow(strat, message, t, cfg, db, api) ==
    Throw(EmptyResult, message)

\* the inner catch (the fallback classifier) and, when that fails too, the
\* outer catch
HandleFailure(strat, message, t, cfg, db, api) ==
    LET fallback ==
            IF strat = "ai" THEN RulesClassifyThread(t, cfg)
            ELSE IF strat = "rules" /\ isAvailable(cfg) THEN AIClassifyThread(t, db, api)
            ELSE Throw(EmptyResult, message)
        method == IF strat = "ai" THEN "rules-fallback" ELSE "ai-fallback"
    IN IF fallback.kind = "throw" THEN LastResort(fallback.error)
       ELSE Return(Enhance([fallback.value EXCEPT !.method = method], strat, TRUE))

-----------------------------------------------------------------------------
(* Threads, configurations and the behaviour of the collaborators *)

\* how many rows the audit store holds, at most
MaxHistory == 2

MessageTexts ==
    {"",
     "hey thanks!",
     "The site is completely down for everyone",
     "The billing page fails with an error",
     "I have a question about invoices",
     "Our nightly export job has produced an empty file since the last release"}

\* the texts that also arrive as content instead of textContent
ContentTexts ==
    {"", "Our nightly export job has produced an empty file since the last release"}

NoMessage == [present |-> FALSE, textContent |-> JsUndef, content |-> JsUndef]

\* no first message; textContent; content as a string; content as an array of
\* components; and the thread processFirstMessage builds
MessageShapes ==
    {[firstMessage |-> NoMessage, allMessageContent |-> JsUndef]}
    \cup {[firstMessage |-> [present |-> TRUE, textContent |-> JsStr(x), content |-> JsUndef],
           allMessageContent |-> JsUndef] : x \in MessageTexts}
    \cup {[firstMessage |-> [present |-> TRUE, textContent |-> JsUndef, content |-> JsStr(x)],
           allMessageContent |-> JsUndef] : x \in ContentTexts}
    \cup {[firstMessage |-> [present |-> TRUE, textContent |-> JsUndef, content |-> JsArr(<<x>>)],
           allMessageContent |-> JsUndef] : x \in ContentTexts}
    \cup {[firstMessage |-> [present |-> TRUE, textContent |-> JsStr(x), content |-> JsUndef],
           allMessageContent |-> JsStr(x)] : x \in MessageTexts}

Tiers ==
    {[present |-> FALSE, name |-> JsUndef],
     [present |-> TRUE, name |-> JsStr("enterprise")],
     [present |-> TRUE, name |-> JsNum("2")]}

CreatedAts ==
    {[kind |-> "absent", age |-> 0],
     [kind |-> "iso", age |-> 10 * Hour]}

Titles == {JsUndef, JsStr("Billing issue")}

Threads ==
    {[id |-> "th_1", firstMessage |-> m.firstMessage,
      allMessageContent |-> m.allMessageContent, title |-> title,
      previewText |-> JsUndef, tier |-> tier, createdAt |-> createdAt] :
        m \in MessageShapes, title \in Titles, tier \in Tiers, createdAt \in CreatedAts}

NoThread ==
    [id |-> Undefined, firstMessage |-> NoMessage, allMessageContent |-> JsUndef,
     title |-> JsUndef, previewText |-> JsUndef,
     tier |-> [present |-> FALSE, name |-> JsUndef],
     createdAt |-> [kind |-> "absent", age |-> 0]]

Configs ==
    [aiClassifierType : {Undefined, "rules", "hybrid"},
     claudeApiKey : {Undefined, "claude-key"},
     openaiApiKey : {Undefined, "openai-key"}]

\* a first message of 234 characters
LongMessage ==
    LET part == "the nightly export job fails again and again, "
             \o "and nobody on our team can reach the billing page since the release; "
             \o "no"
    IN part \o part

SampleRow(i) ==
    [thread_id |-> "th_old_" \o ToString(i), priority_band |-> "P2",
     first_message |-> IF i = 1 THEN "The export of invoices fails" ELSE LongMessage,
     priority_score |-> 575, reasoning |-> IF i = 1 THEN "" ELSE "single user"]

DbStates ==
    {[isConnected |-> FALSE, queryFails |-> FALSE, rows |-> <<>>],
     [isConnected |-> TRUE, queryFails |-> TRUE, rows |-> <<>>]}
    \cup {[isConnected |-> TRUE, queryFails |-> FALSE, rows |-> [i \in 1..n |-> SampleRow(i)]] :
            n \in 0..MaxHistory}

ApiOutcomes ==
    {[kind |-> "error", text |-> "timeout of 30000ms exceeded"],
     [kind |-> "error", text |-> "Request failed with status code 529"],
     [kind |-> "ok", text |-> FormatResponse("exact", 150, "P0")],
     [kind |-> "ok", text |-> FormatResponse("exact", 900, "P1")],
     [kind |-> "ok", text |-> FormatResponse("bulleted", 575, "P2")],
     [kind |-> "ok", text |-> FormatResponse("exact", 0, "P0")],
     [kind |-> "ok", text |-> "I am unable to classify this ticket."]}

NoOutcome == [kind |-> Undefined, value |-> EmptyResult, error |-> Undefined]

NoApi == [kind |-> Undefined, text |-> ""]

NoDb == [isConnected |-> FALSE, queryFails |-> FALSE, rows |-> <<>>]

\* the behaviour of the endpoint and of the audit store matters only to a
\* call of the AI classifier
AiEnvironments(aiRuns) ==
    IF aiRuns THEN ApiOutcomes \X DbStates ELSE {<<NoApi, NoDb>>}

-----------------------------------------------------------------------------
(* HybridPriorityClassifier.compareClassifiers *)

\* Math.abs(aiScore - rulesScore); a score that is undefined gives NaN
ScoreDifference(aiScore, rulesScore) ==
    IF aiScore = NoNumber \/ rulesScore = NoNumber THEN NaN
    ELSE IF aiScore >= rulesScore THEN Num(aiScore - rulesScore)
    ELSE Num(rulesScore - aiScore)

\* a boolean property of the comparison, "null" until it is calculated
JsBoolean(b) == IF b THEN "true" ELSE "false"

NoComparison ==
    [null |-> TRUE, ai |-> NoOutcome, rules |-> NoOutcome, calculated |-> FALSE,
     scoreDifference |-> NaN, bandAgreement |-> "null", agreement |-> "null"]

\* the comparison object, from the settled results of the two classifiers
Comparison(aiSettled, rulesSettled) ==
    IF aiSettled.kind # "return" \/ rulesSettled.kind # "return"
    THEN [NoComparison EXCEPT !.null = FALSE, !.ai = aiSettled, !.rules = rulesSettled]
    ELSE [null |-> FALSE, ai |-> aiSettled, rules |-> rulesSettled, calculated |-> TRUE,
          scoreDifference |-> ScoreDifference(aiSettled.value.priorityScore,
                                              rulesSettled.value.priorityScore),
          bandAgreement |-> JsBoolean(aiSettled.value.priorityBand
                                        = rulesSettled.value.priorityBand),
          agreement |-> JsBoolean(
              /\ aiSettled.value.priorityBand = rulesSettled.value.priorityBand
              /\ aiSettled.value.priorityScore # NoNumber
              /\ rulesSettled.value.priorityScore # NoNumber
              /\ ScoreDifference(aiSettled.value.priorityScore,
                                 rulesSettled.value.priorityScore).num <= 100)]

\* HybridPriorityClassifier.compareClassifiers: null when the AI classifier
\* is not available
compareClassifiers(t, cfg, db, api) ==
    IF ~isAvailable(cfg) THEN NoComparison
    ELSE Comparison(AIClassifyThread(t, db, api), RulesClassifyThread(t, cfg))

-----------------------------------------------------------------------------
(* HybridPriorityClassifier.classifyThread, one classification after another *)

Init ==
    /\ pc = "idle"
    /\ config \in Configs
    /\ thread = NoThread
    /\ strategy = Undefined
    /\ aiAttempt = NoAttempt
    /\ primary = NoOutcome
    /\ outcome = NoOutcome
    /\ threadData = NoThreadData
    /\ rulesResult = NoRulesResult
    /\ claudeResponse = ""
    /\ parsed = NoParse
    /\ thisRules = priorityRules
    /\ firstResult = NoRulesResult
    /\ apiCalls = 0
    /\ store = NoDb
    /\ lastSave = Undefined
    /\ context = <<>>
    /\ prompt = ""
    /\ request = Undefined
    /\ httpResponse = Undefined
    /\ labelCalls = <<>>
    /\ comparison = Undefined
    /\ pool = Undefined
    /\ dbCall = Undefined
    /\ deliveries = Undefined

\* classifyThread is called: the strategy is chosen
ChooseStrategy ==
    /\ pc = "idle"
    /\ \E t \in Threads :
          /\ thread' = t
          /\ strategy' = determineClassifierStrategy(t, config)
    /\ pc' = "primary"
    /\ UNCHANGED <<config, aiAttempt, primary, outcome,
                   threadData, rulesResult, claudeResponse, parsed,
                   thisRules, firstResult, apiCalls, store, lastSave,
                   context, prompt, request, httpResponse, labelCalls, servicePart>>

\* the try block: the classifier of the chosen strategy runs
PrimaryAttempt ==
    /\ pc = "primary"
    /\ \E env \in AiEnvironments(strategy = "ai") :
          LET api == env[1]
              db == env[2]
              result == IF strategy = "ai" THEN AIClassifyThread(thread, db, api)
                        ELSE RulesClassifyThread(thread, config)
          IN /\ primary' = result
             /\ aiAttempt' = IF strategy = "ai" THEN AttemptOf(thread, api) ELSE NoAttempt
             /\ apiCalls' = apiCalls + (IF strategy = "ai" THEN ApiCallsOf(thread) ELSE 0)
             /\ IF result.kind = "return"
                THEN /\ outcome' = Return(Enhance(result.value, strategy, FALSE))
                     /\ pc' = "done"
                ELSE /\ outcome' = outcome
                     /\ pc' = "fallback"
    /\ UNCHANGED <<config, thread, strategy,
                   threadData, rulesResult, claudeResponse, parsed,
                   thisRules, firstResult, store, lastSave,
                   context, prompt, request, httpResponse, labelCalls, servicePart>>

\* the catch blocks: the other classifier runs, or the last resort is returned
FallbackAttempt ==
    /\ pc = "fallback"
    /\ \E env \in AiEnvironments(strategy = "rules" /\ isAvailable(config)) :
          /\ outcome' = HandleFailure(strategy, primary.error, thread, config, env[2], env[1])
          /\ apiCalls' = apiCalls + (IF strategy = "rules" /\ isAvailable(config)
                                     THEN ApiCallsOf(thread) ELSE 0)
    /\ pc' = "done"
    /\ UNCHANGED <<config, thread, strategy, aiAttempt, primary,
                   threadData, rulesResult, claudeResponse, parsed,
                   thisRules, firstResult, store, lastSave,
                   context, prompt, request, httpResponse, labelCalls, servicePart>>

\* the caller has the result; the next thread may be classified
Respond ==
    /\ pc = "done"
    /\ pc' = "idle"
    /\ thread' = NoThread
    /\ strategy' = Undefined
    /\ aiAttempt' = NoAttempt
    /\ primary' = NoOutcome
    /\ outcome' = NoOutcome
    /\ apiCalls' = 0
    /\ UNCHANGED <<config, threadData, rulesResult, claudeResponse, parsed,
                   thisRules, firstResult, store, lastSave,
                   context, prompt, request, httpResponse, labelCalls, servicePart>>

Next == ChooseStrategy \/ PrimaryAttempt \/ FallbackAttempt \/ Respond

Spec == Init /\ [][Next]_vars

-----------------------------------------------------------------------------
(* The parts of the state a specification leaves alone *)

ThreadIds == {"th_1", "th_2"}

NoSave ==
    [saved |-> FALSE, firstMessage |-> Undefined, priorityScore |-> 0,
     priorityBand |-> Undefined, reasoning |-> Undefined]

NoSaves == [id \in ThreadIds |-> NoSave]

NoRequest == [handler |-> Undefined]

NoResponse == [status |-> 0, error |-> Undefined]

rulesPart == <<threadData, rulesResult, firstResult, claudeResponse, parsed, thisRules>>

hybridPart == <<thread, strategy, aiAttempt, primary, outcome, apiCalls>>

storePart == <<store, lastSave>>

contextPart == <<context, prompt>>

webhookPart == <<request, httpResponse, labelCalls>>

RulesPartIdle ==
    /\ threadData = NoThreadData
    /\ rulesResult = NoRulesResult
    /\ firstResult = NoRulesResult
    /\ claudeResponse = ""
    /\ parsed = NoParse
    /\ thisRules = priorityRules

HybridPartIdle ==
    /\ thread = NoThread
    /\ strategy = Undefined
    /\ aiAttempt = NoAttempt
    /\ primary = NoOutcome
    /\ outcome = NoOutcome
    /\ apiCalls = 0

StorePartIdle ==
    /\ store = NoDb
    /\ lastSave = NoSaves

ContextPartIdle ==
    /\ context = <<>>
    /\ prompt = ""

WebhookPartIdle ==
    /\ request = NoRequest
    /\ httpResponse = NoResponse
    /\ labelCalls = <<>>

ServicePartIdle ==
    /\ comparison = Undefined
    /\ pool = Undefined
    /\ dbCall = Undefined
    /\ deliveries = Undefined

-----------------------------------------------------------------------------
(* HybridPriorityClassifier.determineClassifierStrategy on its own *)

StrategyTexts ==
    {"",
     "hey thanks!",
     "Thanks for the quick fix, the dashboard loads and the exports complete again",
     "HELLO, our nightly export job has produced an empty file since the last release",
     "history of invoices is missing from the billing page since the last release",
     "Our nightly export job has produced an empty file since the last release",
     " hi, the nightly export job has produced an empty file since the last release",
     "Is the export broken? Can you check the nightly job for our team please?",
     "Can you check the nightly export job and the billing page for our team?",
     "The export of invoices fails on the billing page.",
     "The export of invoices fails on the billing pages."}

StrategyMessages ==
    {NoMessage,
     [present |-> TRUE, textContent |-> JsUndef, content |-> JsArr(<<"down", "again">>)],
     [present |-> TRUE, textContent |-> JsNum("503"), content |-> JsUndef]}
    \cup {[present |-> TRUE, textContent |-> JsStr(x), content |-> JsUndef] : x \in StrategyTexts}
    \cup {[present |-> TRUE, textContent |-> JsUndef, content |-> JsStr(x)] : x \in StrategyTexts}

StrategyThreads ==
    {[NoThread EXCEPT !.id = "th_1", !.firstMessage = message] : message \in StrategyMessages}

InitStrategy ==
    /\ pc = "strategy"
    /\ config \in Configs
    /\ thread \in StrategyThreads
    /\ strategy = Undefined
    /\ aiAttempt = NoAttempt
    /\ primary = NoOutcome
    /\ outcome = NoOutcome
    /\ apiCalls = 0
    /\ RulesPartIdle
    /\ StorePartIdle
    /\ ContextPartIdle
    /\ WebhookPartIdle
    /\ ServicePartIdle

DetermineClassifierStrategy ==
    /\ pc = "strategy"
    /\ strategy' = determineClassifierStrategy(thread, config)
    /\ pc' = "chosen"
    /\ UNCHANGED <<config, thread, aiAttempt, primary, outcome, apiCalls,
                   rulesPart, storePart, contextPart, webhookPart, servicePart>>

NextStrategy == DetermineClassifierStrategy

SpecStrategy == InitStrategy /\ [][NextStrategy]_vars

-----------------------------------------------------------------------------
(* getHistoricalContext and buildPromptWithContext on their own *)

\* the audit store with up to MaxHistory rows, reachable or not
StoreStates ==
    {[isConnected |-> c, queryFails |-> f, rows |-> [i \in 1..n |-> SampleRow(i)]] :
        c \in BOOLEAN, f \in BOOLEAN, n \in 0..MaxHistory}

ContextThreads ==
    {[NoThread EXCEPT !.id = "th_1",
                      !.firstMessage = [present |-> TRUE, textContent |-> JsStr(x),
                                        content |-> JsUndef]] :
        x \in MessageTexts \ {""}}
    \cup {[NoThread EXCEPT !.id = "th_1",
                           !.firstMessage = [present |-> TRUE, textContent |-> JsUndef,
                                             content |-> JsStr(x)]] :
            x \in ContentTexts \ {""}}

InitContext ==
    /\ pc = "validated"
    /\ config \in {c \in Configs : isAvailable(c) /\ ClassifierType(c) = "ai"}
    /\ thread \in ContextThreads
    /\ store \in StoreStates
    /\ lastSave = NoSaves
    /\ strategy = "ai"
    /\ aiAttempt = NoAttempt
    /\ primary = NoOutcome
    /\ outcome = NoOutcome
    /\ apiCalls = 0
    /\ RulesPartIdle
    /\ ContextPartIdle
    /\ WebhookPartIdle
    /\ ServicePartIdle

\* const historicalContext = await this.getHistoricalContext()
GetHistoricalContext ==
    /\ pc = "validated"
    /\ context' = getHistoricalContext(store, slidingWindowSize)
    /\ pc' = "context"
    /\ UNCHANGED <<config, prompt, rulesPart, hybridPart, storePart, webhookPart, servicePart>>

\* const prompt = this.buildPromptWithContext(firstMessage, historicalContext)
BuildPromptWithContext ==
    /\ pc = "context"
    /\ prompt' = buildPromptWithContext(MessageOf(thread).text, context)
    /\ pc' = "prompt"
    /\ UNCHANGED <<config, context, rulesPart, hybridPart, storePart, webhookPart, servicePart>>

NextContext == GetHistoricalContext \/ BuildPromptWithContext

SpecContext == InitContext /\ [][NextContext]_vars

-----------------------------------------------------------------------------
(* HybridPriorityClassifier.compareClassifiers on its own *)

CompareThreads ==
    {t \in Threads : t.title = JsUndef /\ t.createdAt.kind = "absent"}

CompareEnvironments == {env \in AiEnvironments(TRUE) : env[2].rows = <<>>}

InitCompare ==
    /\ pc = "compare"
    /\ config \in Configs
    /\ thread \in CompareThreads
    /\ strategy = Undefined
    /\ aiAttempt = NoAttempt
    /\ primary = NoOutcome
    /\ outcome = NoOutcome
    /\ apiCalls = 0
    /\ comparison = NoComparison
    /\ pool = Undefined
    /\ dbCall = Undefined
    /\ deliveries = Undefined
    /\ RulesPartIdle
    /\ StorePartIdle
    /\ ContextPartIdle
    /\ WebhookPartIdle

CompareClassifiers ==
    /\ pc = "compare"
    /\ \E env \in CompareEnvironments :
          comparison' = compareClassifiers(thread, config, env[2], env[1])
    /\ pc' = "compared"
    /\ UNCHANGED <<config, rulesPart, hybridPart, storePart, contextPart, webhookPart,
                   pool, dbCall, deliveries>>

NextCompare == CompareClassifiers

SpecCompare == InitCompare /\ [][NextCompare]_vars

-----------------------------------------------------------------------------
(* PriorityClassifier.extractThreadData followed by classifyByRules *)

\* thread.createdAt: absent, ten hours and thirty hours before the local
\* clock, ninety seconds after it (clock skew), and not a date
ExtractCreatedAts ==
    {[kind |-> "absent", age |-> 0],
     [kind |-> "iso", age |-> 10 * Hour],
     [kind |-> "iso", age |-> 30 * Hour],
     [kind |-> "iso", age |-> 0 - 90],
     [kind |-> "invalid", age |-> 0]}

ExtractThreads ==
    {[NoThread EXCEPT !.id = "th_1",
                      !.firstMessage = [present |-> TRUE, textContent |-> JsStr(text),
                                        content |-> JsUndef],
                      !.tier = tier,
                      !.createdAt = createdAt] :
        text \in MessageTexts, tier \in Tiers, createdAt \in ExtractCreatedAts}

InitExtract ==
    /\ pc = "thread"
    /\ thread \in ExtractThreads
    /\ config = [aiClassifierType |-> Undefined, claudeApiKey |-> Undefined,
                 openaiApiKey |-> Undefined]
    /\ strategy = Undefined
    /\ aiAttempt = NoAttempt
    /\ primary = NoOutcome
    /\ outcome = NoOutcome
    /\ apiCalls = 0
    /\ RulesPartIdle
    /\ StorePartIdle
    /\ ContextPartIdle
    /\ WebhookPartIdle
    /\ ServicePartIdle

\* const threadData = this.extractThreadData(thread); a throw ends the call
\* in the catch block of classifyThread
ExtractThreadData ==
    /\ pc = "thread"
    /\ \E data \in {extractThreadData(thread)} :
          /\ threadData' = data.value
          /\ pc' = IF data.kind = "return" THEN "facts" ELSE "caught"
    /\ UNCHANGED <<config, rulesResult, firstResult, claudeResponse, parsed, thisRules,
                   hybridPart, storePart, contextPart, webhookPart, servicePart>>

NextExtract == ExtractThreadData \/ ClassifyByRules

SpecExtract == InitExtract /\ [][NextExtract]_vars

-----------------------------------------------------------------------------
(* DatabaseService.saveTicket, call after call *)

SaveArguments ==
    {[threadId |-> id, firstMessage |-> message, priorityScore |-> c[1],
      priorityBand |-> c[2], reasoning |-> c[3]] :
        id \in ThreadIds,
        message \in {Undefined, "The site is completely down for everyone", "hey thanks!"},
        c \in {<<Num(90), "P0", "Confidence: 0.9, Method: rules, Keywords: none">>,
               <<Num(30), "P1", "Confidence: 0.3, Method: rules, Keywords: none">>,
               <<NaN, "P2", "Confidence: undefined, Method: rules, Keywords: none">>}}

InitStore ==
    /\ pc = "store"
    /\ config = [aiClassifierType |-> Undefined, claudeApiKey |-> Undefined,
                 openaiApiKey |-> Undefined]
    /\ store \in {[isConnected |-> c, queryFails |-> FALSE, rows |-> <<>>] : c \in BOOLEAN}
    /\ lastSave = NoSaves
    /\ RulesPartIdle
    /\ HybridPartIdle
    /\ ContextPartIdle
    /\ WebhookPartIdle
    /\ ServicePartIdle

\* one call of saveTicket; the query may throw
SaveTicket ==
    /\ pc = "store"
    /\ \E args \in SaveArguments, queryFails \in BOOLEAN :
          LET db == [store EXCEPT !.queryFails = queryFails]
          IN /\ store' = [saveTicket(db, args) EXCEPT !.queryFails = FALSE]
             /\ lastSave' = IF SaveSucceeds(db, args)
                            THEN [lastSave EXCEPT ![args.threadId] =
                                     [saved |-> TRUE, firstMessage |-> args.firstMessage,
                                      priorityScore |-> args.priorityScore.num,
                                      priorityBand |-> args.priorityBand,
                                      reasoning |-> args.reasoning]]
                            ELSE lastSave
    /\ UNCHANGED <<pc, config, rulesPart, hybridPart, contextPart, webhookPart, servicePart>>

NextStore == SaveTicket

SpecStore == InitStore /\ [][NextStore]_vars

-----------------------------------------------------------------------------
(* Webhook verification: handlePlainWebhook and the serverless handler *)

SignatureError == "PlainWebhookSignatureVerificationError"

VersionError == "PlainWebhookVersionMismatchError"

Verified == [error |-> "none", message |-> ""]

\* verifyPlainWebhook of the Plain SDK.  signature: "valid" is the HMAC of the
\* payload, anything else is refused; body: what a payload with a good
\* signature turns out to be
SdkVerify(req) ==
    IF req.signature # "valid"
    THEN [error |-> SignatureError, message |-> "Signature mismatch"]
    ELSE IF req.body = "versionMismatch"
    THEN [error |-> VersionError, message |-> "Webhook version mismatch"]
    ELSE IF req.body = "invalid"
    THEN [error |-> "Error", message |-> "Unexpected token in JSON"]
    ELSE Verified

\* verifyPlainWebhookManual: crypto.timingSafeEqual throws for buffers of
\* different byte length ("malformed"), returns false for another hash of the
\* same length ("wrongHash"); every failure is a plain Error
verifyPlainWebhookManual(req) ==
    IF req.signature = "malformed"
    THEN [error |-> "Error",
          message |-> "Signature verification error: Input buffers must have the same byte length"]
    ELSE IF req.signature = "wrongHash"
    THEN [error |-> "Error", message |-> "Webhook signature verification failed"]
    ELSE IF req.body = "invalid"
    THEN [error |-> "Error", message |-> "Invalid JSON payload: Unexpected token"]
    ELSE Verified

VerifyWebhookResult(req) ==
    IF req.handler = "serverless" /\ ~req.sdkLoaded
    THEN verifyPlainWebhookManual(req)
    ELSE SdkVerify(req)

\* the status the handler answers with before any processing, 0 when the
\* request is verified and goes on to be processed
VerificationStatus(req) ==
    LET webhookResult == VerifyWebhookResult(req)
        isSignatureError ==
            IF req.handler = "express" THEN webhookResult.error = SignatureError
            ELSE /\ webhookResult.error # "none"
                 /\ \/ webhookResult.error = SignatureError
                    \/ Includes(webhookResult.message, "signature verification failed")
                    \/ Includes(webhookResult.message, "Webhook signature verification failed")
        isVersionError ==
            IF req.handler = "express" THEN webhookResult.error = VersionError
            ELSE /\ webhookResult.error # "none"
                 /\ \/ webhookResult.error = VersionError
                    \/ Includes(webhookResult.message, "version mismatch")
    IN IF req.signature = "missing" THEN 401
       ELSE IF isSignatureError THEN 401
       ELSE IF isVersionError THEN 400
       ELSE IF webhookResult.error # "none" THEN 500
       ELSE 0

-----------------------------------------------------------------------------
(* Event processing: classification, audit row, label *)

\* HybridPriorityClassifier.classifyThread as one call
HybridResult(strat, first, t, cfg, db, api) ==
    IF first.kind = "return" THEN Return(Enhance(first.value, strat, FALSE))
    ELSE HandleFailure(strat, first.error, t, cfg, db, api)

HybridAttempt(strat, t, cfg, db, api) ==
    HybridResult(strat,
                 IF strat = "ai" THEN AIClassifyThread(t, db, api)
                 ELSE RulesClassifyThread(t, cfg),
                 t, cfg, db, api)

HybridClassifyThread(t, cfg, db, api) ==
    HybridAttempt(determineClassifierStrategy(t, cfg), t, cfg, db, api)

\* plainApiClient.addPriorityLabel: throws when config.priorityLabels has no
\* label type for the priority, or when the GraphQL call fails
addPriorityLabel(priority, labelEnv) ==
    IF priority \notin labelEnv.configured
    THEN Throw(priority, "No label type ID configured for priority: " \o priority)
    ELSE IF labelEnv.callFails THEN Throw(priority, "Request failed with status code 500")
    ELSE Return(priority)

\* a threshold test that lets every classification through
ShouldApplyLabelAlways(confidence) == TRUE

\* confidence === 'high' || confidence === 'medium' ||
\* (typeof confidence === 'number' && confidence >= 0.7)
ShouldApplyLabel(confidence) ==
    \/ confidence.type = "string" /\ confidence.str \in {"high", "medium"}
    \/ confidence.type = "number" /\ confidence.num >= 700

LabelCall(threadId, priority, confidence, labelEnv) ==
    [threadId |-> threadId, priority |-> priority, confidence |-> confidence,
     failed |-> addPriorityLabel(priority, labelEnv).kind = "throw"]

NoSaveArguments ==
    [threadId |-> Undefined, firstMessage |-> Undefined, priorityScore |-> NaN,
     priorityBand |-> Undefined, reasoning |-> Undefined]

\* what a handler did: how it ended, the label calls it made, the
\* classification it obtained, the store it leaves and the row it wrote
NoProcessing(db) ==
    [kind |-> "return", labels |-> <<>>, classification |-> NoOutcome, db |-> db,
     saved |-> FALSE, args |-> NoSaveArguments]

\* a handler whose failures are passed on to handlePlainWebhook
\* the try block of handleThreadCreated, once the classification is there
LabelClassified(threadId, classification, db, labelEnv) ==
    IF classification.kind = "throw"
    THEN [NoProcessing(db) EXCEPT !.classification = classification]
    ELSE [NoProcessing(db) EXCEPT
            !.classification = classification,
            !.labels = IF ShouldApplyLabel(classification.value.confidence)
                       THEN <<LabelCall(threadId, classification.value.priorityBand,
                                        classification.value.confidence, labelEnv)>>
                       ELSE <<>>]

Rethrown(processing) ==
    [processing EXCEPT
        !.kind = IF processing.classification.kind = "throw"
                    \/ (processing.labels # <<>> /\ processing.labels[1].failed)
                 THEN "throw" ELSE "return"]

\* a handler whose failures are passed on to handlePlainWebhook
handleThreadCreatedUncaught(event, cfg, db, api, labelEnv) ==
    Rethrown(LabelClassified(event.thread.id,
                             HybridClassifyThread(event.thread, cfg, db, api),
                             db, labelEnv))

\* handleThreadCreated of webhookHandler.js: thread.id is read before the try
\* block; what the try block throws is logged and dropped
handleThreadCreated(event, cfg, db, api, labelEnv) ==
    IF ~event.hasThread THEN [NoProcessing(db) EXCEPT !.kind = "throw"]
    ELSE LabelClassified(event.thread.id,
                         HybridClassifyThread(event.thread, cfg, db, api),
                         db, labelEnv)

\* handleEmailReceived of webhookHandler.js: the flag is read from the payload
handleEmailReceivedExpress(event, cfg, db, api, labelEnv) ==
    IF ~event.payloadIsStartOfThread THEN NoProcessing(db)
    ELSE handleThreadCreated(event, cfg, db, api, labelEnv)

RECURSIVE Digits(_)
Digits(n) == IF n < 10 THEN ToString(n) ELSE Digits(n \div 10) \o ToString(n % 10)

\* String(confidence) for a confidence in thousandths; 0.6 + 0.3 prints as
\* 0.8999999999999999
NumberText(n) ==
    IF n = 899 THEN "0.8999999999999999"
    ELSE IF n % 1000 = 0 THEN Digits(n \div 1000)
    ELSE Digits(n \div 1000) \o "."
         \o (IF n % 100 = 0 THEN Digits((n % 1000) \div 100)
             ELSE IF n % 10 = 0
             THEN (IF n % 1000 < 100 THEN "0" ELSE "") \o Digits((n % 1000) \div 10)
             ELSE (IF n % 1000 < 10 THEN "00" ELSE IF n % 1000 < 100 THEN "0" ELSE "")
                  \o Digits(n % 1000))

\* processFirstMessage of the serverless handler: the rule-based classifier,
\* the audit row, the label for a confidence of 0.7 or more; whatever is
\* thrown is logged and dropped
TicketOf(threadId, messageContent, priority) ==
    [threadId |-> threadId,
     firstMessage |-> messageContent,
     priorityScore |-> Num((priority.confidence.num + 5) \div 10),
     priorityBand |-> priority.priority,
     reasoning |-> "Confidence: " \o NumberText(priority.confidence.num)
                   \o ", Method: " \o priority.method
                   \o ", Keywords: none"]

SaveAndLabel(threadId, args, priority, db, labelEnv) ==
    [NoProcessing(saveTicket(db, args)) EXCEPT
        !.classification = priority,
        !.saved = SaveSucceeds(db, args),
        !.args = args,
        !.labels = IF priority.value.confidence.num >= 700
                   THEN <<LabelCall(threadId, priority.value.priority,
                                    priority.value.confidence, labelEnv)>>
                   ELSE <<>>]

ProcessClassified(threadId, messageContent, priority, db, labelEnv) ==
    SaveAndLabel(threadId, TicketOf(threadId, messageContent, priority.value),
                 priority, db, labelEnv)

\* { ...thread, allMessageContent: messageContent,
\*   firstMessage: { textContent: messageContent } }
EnhancedThread(t, messageContent) ==
    [t EXCEPT !.allMessageContent = JsStr(messageContent),
              !.firstMessage = [present |-> TRUE,
                                textContent |-> JsStr(messageContent),
                                content |-> JsUndef]]

processFirstMessage(t, messageContent, cfg, db, labelEnv) ==
    ProcessClassified(t.id, messageContent,
                      RulesClassifyThread(EnhancedThread(t, messageContent), cfg),
                      db, labelEnv)

\* handleEmailReceived and handleChatReceived of the serverless handler: only
\* the first message of a thread that has no row yet is processed, on the
\* thread plainApiClient.getThread returns
handleFirstMessage(event, cfg, db, labelEnv) ==
    IF event.type = "thread.email_received" /\ ~event.emailIsStartOfThread
    THEN NoProcessing(db)
    ELSE IF ~getTicket(db, event.thread.id).null THEN NoProcessing(db)
    ELSE IF labelEnv.getThreadFails THEN NoProcessing(db)
    ELSE processFirstMessage(event.thread, event.text, cfg, db, labelEnv)

\* the switch on the event type, of each of the two handlers
ProcessWebhookEvent(req, cfg, db, api, labelEnv) ==
    IF req.handler = "express"
    THEN IF req.event.type = "thread.thread_created"
         THEN handleThreadCreated(req.event, cfg, db, api, labelEnv)
         ELSE IF req.event.type = "thread.email_received"
         THEN handleEmailReceivedExpress(req.event, cfg, db, api, labelEnv)
         ELSE NoProcessing(db)
    ELSE IF req.event.type \in {"thread.email_received", "thread.chat_received"}
         THEN handleFirstMessage(req.event, cfg, db, labelEnv)
         ELSE NoProcessing(db)

-----------------------------------------------------------------------------
(* The webhook endpoint, one request after another *)

WebhookThread(id, text) ==
    [NoThread EXCEPT !.id = id,
                     !.firstMessage = [present |-> TRUE, textContent |-> JsStr(text),
                                       content |-> JsUndef]]

WebhookTexts ==
    {"The site is completely down for everyone",
     "hey thanks!",
     "Our nightly export job has produced an empty file since the last release"}

NoEvent ==
    [type |-> Undefined, hasThread |-> FALSE, thread |-> NoThread,
     payloadIsStartOfThread |-> FALSE, emailIsStartOfThread |-> FALSE, text |-> ""]

Events ==
    {[NoEvent EXCEPT !.type = "thread.thread_created", !.hasThread = TRUE,
                     !.thread = WebhookThread("th_1", x)] : x \in WebhookTexts}
    \cup {[NoEvent EXCEPT !.type = "thread.thread_created"]}
    \cup {[NoEvent EXCEPT !.type = "thread.email_received", !.hasThread = TRUE,
                          !.thread = WebhookThread("th_2", x),
                          !.emailIsStartOfThread = s, !.payloadIsStartOfThread = s,
                          !.text = x] :
            x \in {"The site is completely down for everyone", ""}, s \in BOOLEAN}
    \cup {[NoEvent EXCEPT !.type = "thread.chat_received", !.hasThread = TRUE,
                          !.thread = WebhookThread("th_1", x),
                          !.text = x] :
            x \in {"hey thanks!", "Login fails with an error"}}
    \cup {[NoEvent EXCEPT !.type = "thread.labels_changed", !.hasThread = TRUE,
                          !.thread = WebhookThread("th_1", "hey thanks!")]}

\* the express handler always has the SDK; the serverless handler verifies
\* by hand when the SDK could not be loaded.  A signature that is not valid
\* leaves the body unread
Requests ==
    {[handler |-> h[1], sdkLoaded |-> h[2], method |-> "POST",
      signature |-> s[1], body |-> s[2], event |-> e] :
        h \in {<<"express", TRUE>>, <<"serverless", TRUE>>, <<"serverless", FALSE>>},
        s \in {<<"missing", "ok">>, <<"wrongHash", "ok">>, <<"malformed", "ok">>,
               <<"valid", "ok">>, <<"valid", "versionMismatch">>, <<"valid", "invalid">>},
        e \in Events}
    \cup {[handler |-> "serverless", sdkLoaded |-> TRUE, method |-> "GET",
           signature |-> "missing", body |-> "ok", event |-> NoEvent]}

WebhookConfigs ==
    {[aiClassifierType |-> Undefined, claudeApiKey |-> Undefined, openaiApiKey |-> Undefined],
     [aiClassifierType |-> "hybrid", claudeApiKey |-> "claude-key", openaiApiKey |-> Undefined]}

\* what the collaborators do during one request: the text-generation
\* endpoint, the label mutation and the thread query of the Plain API
WebhookEnvironments(req, cfg) ==
    {[api |-> a, labelEnv |-> [configured |-> BandSet, callFails |-> l, getThreadFails |-> g]] :
        a \in IF req.handler = "express" /\ isAvailable(cfg)
              THEN {[kind |-> "error", text |-> "timeout of 30000ms exceeded"],
                    [kind |-> "ok", text |-> FormatResponse("exact", 150, "P0")]}
              ELSE {NoApi},
        l \in BOOLEAN,
        g \in IF req.handler = "serverless" THEN BOOLEAN ELSE {FALSE}}

InitWebhook ==
    /\ pc = "listening"
    /\ config \in WebhookConfigs
    /\ store \in {[isConnected |-> c, queryFails |-> FALSE, rows |-> <<>>] : c \in BOOLEAN}
    /\ lastSave = NoSaves
    /\ RulesPartIdle
    /\ HybridPartIdle
    /\ ContextPartIdle
    /\ WebhookPartIdle
    /\ ServicePartIdle

\* a request arrives at the endpoint
ReceiveWebhook ==
    /\ pc = "listening"
    /\ request' \in Requests
    /\ pc' = "received"
    /\ UNCHANGED <<config, rulesPart, hybridPart, storePart, contextPart,
                   httpResponse, labelCalls, servicePart>>

\* the method, the signature header and the verification of the payload
VerifyWebhook ==
    /\ pc = "received"
    /\ LET status == IF request.handler = "serverless" /\ request.method # "POST"
                     THEN 405 ELSE VerificationStatus(request)
       IN IF status = 0
          THEN /\ pc' = "verified"
               /\ httpResponse' = httpResponse
          ELSE /\ pc' = "responded"
               /\ httpResponse' = [status |-> status,
                                   error |-> VerifyWebhookResult(request).message]
    /\ UNCHANGED <<config, rulesPart, hybridPart, storePart, contextPart,
                   request, labelCalls, servicePart>>

\* the event of a verified request is processed and the request is answered
ProcessEvent ==
    /\ pc = "verified"
    /\ \E env \in WebhookEnvironments(request, config) :
       \E result \in {ProcessWebhookEvent(request, config, store, env.api, env.labelEnv)} :
             /\ outcome' = result.classification
             /\ labelCalls' = result.labels
             /\ store' = result.db
             /\ lastSave' = IF result.saved
                            THEN [lastSave EXCEPT ![result.args.threadId] =
                                     [saved |-> TRUE,
                                      firstMessage |-> result.args.firstMessage,
                                      priorityScore |-> result.args.priorityScore.num,
                                      priorityBand |-> result.args.priorityBand,
                                      reasoning |-> result.args.reasoning]]
                            ELSE lastSave
             /\ httpResponse' = IF result.kind = "throw"
                                THEN [status |-> 500, error |-> "Internal server error"]
                                ELSE [status |-> 200, error |-> Undefined]
    /\ pc' = "responded"
    /\ UNCHANGED <<config, rulesPart, thread, strategy, aiAttempt, primary, apiCalls,
                   contextPart, request, servicePart>>

\* the response is sent; the endpoint waits for the next request
NextRequest ==
    /\ pc = "responded"
    /\ pc' = "listening"
    /\ request' = NoRequest
    /\ httpResponse' = NoResponse
    /\ labelCalls' = <<>>
    /\ outcome' = NoOutcome
    /\ UNCHANGED <<config, rulesPart, thread, strategy, aiAttempt, primary, apiCalls,
                   storePart, contextPart, servicePart>>

NextWebhook == ReceiveWebhook \/ VerifyWebhook \/ ProcessEvent \/ NextRequest

SpecWebhook == InitWebhook /\ [][NextWebhook]_vars

-----------------------------------------------------------------------------
(* DatabaseService.initialize, the serverless handler and the health endpoint *)

\* initialize(): the pool is returned when there is one; without a database
\* URL nothing is done; otherwise the pool is created and the connection is
\* tested, and a failed test leaves the pool in place
initialize(db, pl, databaseUrl, reachable) ==
    IF pl # "null" THEN [kind |-> "return", db |-> db, pool |-> pl]
    ELSE IF databaseUrl = Undefined THEN [kind |-> "return", db |-> db, pool |-> pl]
    ELSE IF ~reachable
    THEN [kind |-> "throw", db |-> [db EXCEPT !.isConnected = FALSE], pool |-> "pool"]
    ELSE [kind |-> "return", db |-> [db EXCEPT !.isConnected = TRUE], pool |-> "pool"]

\* database of the health response
DatabaseStatus(initialized) ==
    IF initialized.kind = "throw" THEN "error"
    ELSE IF initialized.db.isConnected THEN "connected"
    ELSE "disconnected"

NoCall ==
    [op |-> Undefined, reachable |-> FALSE, threw |-> FALSE, afterFailure |-> FALSE,
     failedBefore |-> FALSE, databaseStatus |-> Undefined, dbInitialized |-> FALSE]

\* the record of an initialize call
InitializeCall(op, initialized, reachable, dbInitialized, status) ==
    [op |-> op, reachable |-> reachable, threw |-> initialized.kind = "throw",
     afterFailure |-> dbCall.failedBefore,
     failedBefore |-> dbCall.failedBefore \/ initialized.kind = "throw",
     databaseStatus |-> status, dbInitialized |-> dbInitialized]

InitDatabase ==
    /\ pc = "store"
    /\ config \in {[aiClassifierType |-> Undefined, claudeApiKey |-> Undefined,
                    openaiApiKey |-> Undefined, databaseUrl |-> url] :
                      url \in {Undefined, "postgres://db.example"}}
    /\ store = NoDb
    /\ lastSave = NoSaves
    /\ pool = "null"
    /\ dbCall = NoCall
    /\ comparison = Undefined
    /\ deliveries = Undefined
    /\ RulesPartIdle
    /\ HybridPartIdle
    /\ ContextPartIdle
    /\ WebhookPartIdle

\* the first lines of the serverless handler: initialize is called until a
\* call has returned
WebhookInitialize ==
    /\ pc = "store"
    /\ ~dbCall.dbInitialized
    /\ \E reachable \in BOOLEAN :
       \E initialized \in {initialize(store, pool, config.databaseUrl, reachable)} :
          /\ store' = initialized.db
          /\ pool' = initialized.pool
          /\ dbCall' = InitializeCall("webhook", initialized, reachable,
                                      initialized.kind = "return", Undefined)
    /\ UNCHANGED <<pc, config, rulesPart, hybridPart, lastSave, contextPart, webhookPart,
                   comparison, deliveries>>

\* the health endpoint: initialize is called when isConnected is false
Health ==
    /\ pc = "store"
    /\ \E reachable \in BOOLEAN :
          IF store.isConnected
          THEN /\ dbCall' = [dbCall EXCEPT !.op = "health", !.reachable = reachable,
                                           !.threw = FALSE, !.afterFailure = FALSE,
                                           !.databaseStatus = "connected"]
               /\ UNCHANGED <<store, pool>>
          ELSE \E initialized \in {initialize(store, pool, config.databaseUrl, reachable)} :
                  /\ store' = initialized.db
                  /\ pool' = initialized.pool
                  /\ dbCall' = InitializeCall("health", initialized, reachable,
                                              dbCall.dbInitialized,
                                              DatabaseStatus(initialized))
    /\ UNCHANGED <<pc, config, rulesPart, hybridPart, lastSave, contextPart, webhookPart,
                   comparison, deliveries>>

NextDatabase == WebhookInitialize \/ Health \/ SaveTicket

SpecDatabase == InitDatabase /\ [][NextDatabase]_vars

-----------------------------------------------------------------------------
(* Deliveries for one thread in the serverless handler, await by await *)

\* how many deliveries concern the thread
MaxDeliveries == 2

DeliveryText == "The site is completely down for everyone"

DeliveryThread == WebhookThread("th_1", DeliveryText)

NoDelivery == [pc |-> "received", type |-> Undefined, priority |-> NoOutcome]

\* every delivery is verified and is the first message of the thread: an
\* email with isStartOfThread, or a chat message
InitDeliveries ==
    /\ pc = "deliveries"
    /\ config = [aiClassifierType |-> Undefined, claudeApiKey |-> Undefined,
                 openaiApiKey |-> Undefined]
    /\ deliveries \in
          [1..MaxDeliveries ->
              {[NoDelivery EXCEPT !.type = type] :
                  type \in {"thread.email_received", "thread.chat_received"}}]
    /\ store \in {[isConnected |-> c, queryFails |-> FALSE, rows |-> <<>>] : c \in BOOLEAN}
    /\ lastSave = NoSaves
    /\ comparison = Undefined
    /\ pool = Undefined
    /\ dbCall = Undefined
    /\ RulesPartIdle
    /\ HybridPartIdle
    /\ ContextPartIdle
    /\ WebhookPartIdle

\* const existingTicket = await database.getTicket(thread.id)
DeliveryGetTicket ==
    /\ \E d \in DOMAIN deliveries :
          /\ deliveries[d].pc = "received"
          /\ deliveries' = [deliveries EXCEPT ![d].pc =
                               IF getTicket(store, DeliveryThread.id).null
                               THEN "checked" ELSE "skipped"]
    /\ UNCHANGED <<pc, config, rulesPart, hybridPart, storePart, contextPart, webhookPart,
                   comparison, pool, dbCall>>

\* const fullThread = await plainApiClient.getThread(thread.id)
DeliveryGetThread ==
    /\ \E d \in DOMAIN deliveries, getThreadFails \in BOOLEAN :
          /\ deliveries[d].pc = "checked"
          /\ deliveries' = [deliveries EXCEPT ![d].pc =
                               IF getThreadFails THEN "failed" ELSE "fetched"]
    /\ UNCHANGED <<pc, config, rulesPart, hybridPart, storePart, contextPart, webhookPart,
                   comparison, pool, dbCall>>

\* const priority = await priorityClassifier.classifyThread(enhancedThread)
DeliveryClassify ==
    /\ \E d \in DOMAIN deliveries :
          /\ deliveries[d].pc = "fetched"
          /\ deliveries' = [deliveries EXCEPT
                               ![d].pc = "classified",
                               ![d].priority =
                                   RulesClassifyThread(
                                       EnhancedThread(DeliveryThread, DeliveryText), config)]
    /\ UNCHANGED <<pc, config, rulesPart, hybridPart, storePart, contextPart, webhookPart,
                   comparison, pool, dbCall>>

\* await database.saveTicket({...})
DeliverySaveTicket ==
    /\ \E d \in DOMAIN deliveries :
          /\ deliveries[d].pc = "classified"
          /\ store' = saveTicket(store, TicketOf(DeliveryThread.id, DeliveryText,
                                                 deliveries[d].priority.value))
          /\ deliveries' = [deliveries EXCEPT ![d].pc = "saved"]
    /\ UNCHANGED <<pc, config, rulesPart, hybridPart, lastSave, contextPart, webhookPart,
                   comparison, pool, dbCall>>

\* if (priority.confidence >= 0.7) await plainApiClient.addPriorityLabel(...)
DeliveryAddLabel ==
    /\ \E d \in DOMAIN deliveries, callFails \in BOOLEAN :
          /\ deliveries[d].pc = "saved"
          /\ labelCalls' =
                IF deliveries[d].priority.value.confidence.num >= 700
                THEN Append(labelCalls,
                            LabelCall(DeliveryThread.id, deliveries[d].priority.value.priority,
                                      deliveries[d].priority.value.confidence,
                                      [configured |-> BandSet, callFails |-> callFails,
                                       getThreadFails |-> FALSE]))
                ELSE labelCalls
          /\ deliveries' = [deliveries EXCEPT ![d].pc = "done"]
    /\ UNCHANGED <<pc, config, rulesPart, hybridPart, storePart, contextPart,
                   request, httpResponse, comparison, pool, dbCall>>

NextDeliveries ==
    \/ DeliveryGetTicket
    \/ DeliveryGetThread
    \/ DeliveryClassify
    \/ DeliverySaveTicket
    \/ DeliveryAddLabel

SpecDeliveries == InitDeliveries /\ [][NextDeliveries]_vars

-----------------------------------------------------------------------------
(* Properties of the hybrid selector and of the AI classifier (Spec) *)

Classified == pc = "done"

\* C1: for every thread, every behaviour of the text-generation endpoint and
\* every behaviour of the audit store, HybridPriorityClassifier.classifyThread
\* ends by returning a classification result; it never throws or rejects.  A
\* failed primary classifier is always followed by the catch blocks.
C1_HybridNeverThrows ==
    /\ pc \in {"idle", "primary", "fallback", "done"}
    /\ pc = "fallback" => primary.kind = "throw"
    /\ Classified => /\ outcome.kind = "return"
                     /\ outcome.value.method # Undefined
                     /\ outcome.value.classifier = "hybrid"

\* the AI classifier itself threw (its keyword fallback failed on a message
\* whose content is a list of components) and the selector still returned
C1_Witness ==
    /\ Classified
    /\ primary.kind = "throw"
    /\ aiAttempt.apiFailed
    /\ outcome.kind = "return"
    /\ outcome.value.fallbackUsed = "true"

\* C3: every result returned by HybridPriorityClassifier.classifyThread carries
\* exactly one band, a value of P0..P3, in its priorityBand field.
C3_EveryResultHasPriorityBand ==
    Classified => outcome.value.priorityBand \in BandSet

\* C4: in ai-only mode with the AI classifier available, when the
\* text-generation call fails, classifyThread still returns a result and the
\* result's method contains the substring "fallback".
C4_AiOnlyFailureGivesFallback ==
    (/\ Classified
     /\ ClassifierType(config) = "ai"
     /\ isAvailable(config)
     /\ aiAttempt.apiFailed)
    => /\ outcome.kind = "return"
       /\ Includes(outcome.value.method, "fallback")

C4_Witness ==
    /\ Classified
    /\ ClassifierType(config) = "ai"
    /\ isAvailable(config)
    /\ aiAttempt.apiFailed
    /\ outcome.value.method = "fallback-keywords"

\* C5: when the chosen strategy is ai and the AI attempt fails (transport
\* failure, timeout, unparsable response or missing ticket text), the result is
\* the one computed by the rule evaluator for that ticket, with method
\* "rules-fallback".
C5_AiFailureGivesRulesFallback ==
    (Classified /\ strategy = "ai" /\ aiAttempt.error # Undefined)
    => /\ outcome.value.method = "rules-fallback"
       /\ outcome.value.priority = RulesClassifyThread(thread, config).value.priority

\* C6: AIPriorityClassifier.classifyThread reports every failure of its steps
\* to its caller as an error, and returns a classification only when all steps
\* succeeded.
C6_AiFailureIsRejected ==
    aiAttempt.ran => (aiAttempt.error # Undefined <=> primary.kind = "throw")

\* C20: within one classification request the text-generation endpoint is
\* invoked at most once, whatever the outcome of that invocation, and it is not
\* invoked at all when the ticket has no message text.
C20_EndpointInvokedAtMostOnce ==
    /\ apiCalls <= 1
    /\ (pc \in {"fallback", "done"} /\ MessageOf(thread) = JsStr("")) => apiCalls = 0

\* C20 witness: the one invocation failed and the request ended without retry.
C20_Witness ==
    /\ Classified
    /\ aiAttempt.apiFailed
    /\ apiCalls = 1

-----------------------------------------------------------------------------
(* Properties of the strategy selection (SpecStrategy) *)

Chosen == pc = "chosen"

\* C12: in rules-only mode determineClassifierStrategy returns 'rules' whether
\* or not the AI classifier is available; in ai-only mode (the default when no
\* mode is configured) it returns 'ai' exactly when the AI classifier is
\* available and 'rules' otherwise; in no mode does it return 'ai' while the AI
\* classifier is unavailable.
C12_StrategyFollowsModeTable ==
    Chosen =>
        /\ config.aiClassifierType = "rules" => strategy = "rules"
        /\ config.aiClassifierType = Undefined =>
              /\ strategy \in {"ai", "rules"}
              /\ strategy = "ai" <=> isAvailable(config)
        /\ strategy = "ai" => isAvailable(config)

\* C12 witness: ai-only mode by default, no API key, strategy rules.
C12_Witness ==
    /\ Chosen
    /\ config.aiClassifierType = Undefined
    /\ ~isAvailable(config)
    /\ strategy = "rules"

\* C13: in hybrid mode with the AI classifier available, a message shorter
\* than 50 characters, or a message that starts with a greeting (hi, hello,
\* hey, thanks), makes determineClassifierStrategy return 'rules'.
C13_SimpleMessagesGoToRules ==
    (/\ Chosen
     /\ config.aiClassifierType = "hybrid"
     /\ isAvailable(config)
     /\ MessageOf(thread).type = "string"
     /\ \/ Len(MessageOf(thread).text) < 50
        \/ \E greeting \in {"hi", "hello", "hey", "thanks"} :
              StartsWith(toLowerCase(MessageOf(thread).text), greeting))
    => strategy = "rules"

\* C13 witness: "hey thanks!" in hybrid mode with the AI classifier available.
C13_Witness ==
    /\ Chosen
    /\ config.aiClassifierType = "hybrid"
    /\ isAvailable(config)
    /\ MessageOf(thread) = JsStr("hey thanks!")
    /\ strategy = "rules"

-----------------------------------------------------------------------------
(* Properties of the rule evaluator (SpecRules) *)

Evaluated == pc = "evaluated"

\* a confidence in tenths, to the nearest tenth
Tenths(x) == (x + 50) \div 100

KeywordsOccurring(b) ==
    {i \in 1..Len(priorityRules[b].keywords) :
        Includes(threadData.content, priorityRules[b].keywords[i])}

KeywordTenths(b) ==
    IF KeywordsOccurring(b) = {} THEN 0 ELSE 5 + Cardinality(KeywordsOccurring(b))

TierTenths(b) ==
    IF threadData.customer.tier \in
         {priorityRules[b].customerTiers[i] : i \in 1..Len(priorityRules[b].customerTiers)}
    THEN 3 ELSE 0

OverdueTenths(b) ==
    IF /\ ~threadData.timing.hoursSinceCreated.nan
       /\ threadData.timing.hoursSinceCreated.sec > priorityRules[b].timeThresholds.response
    THEN 2 ELSE 0

AllScoresZero == \A p \in BandSet : rulesResult.scores[p] = 0

\* C2 (as claimed): whenever every band's score is 0, classifyByRules returns
\* band P2 with confidence 0.
C2_DefaultBandIsP2 ==
    (Evaluated /\ AllScoresZero) =>
        (rulesResult.priority = "P2" /\ rulesResult.confidence = 0)

\* C8: for every band b the score classifyByRules computes is, in tenths,
\* min(10, k + t + o) with k = 0 or 5 + number of b's keywords occurring in
\* the content, t = 3 when the tier is eligible for b, o = 2 when the age
\* exceeds b's response threshold.
C8_BandScoreFormula ==
    Evaluated =>
        \A b \in BandSet :
            Tenths(rulesResult.scores[b]) =
                Min(10, KeywordTenths(b) + TierTenths(b) + OverdueTenths(b))

\* C8 witness: a band scored from keywords, tier and age together, and capped.
C8_Witness ==
    /\ Evaluated
    /\ \E b \in BandSet :
          /\ KeywordTenths(b) >= 6 /\ TierTenths(b) = 3 /\ OverdueTenths(b) = 2
          /\ rulesResult.scores[b] = 1000
    /\ \E b \in BandSet :
          /\ Cardinality(KeywordsOccurring(b)) >= 2
          /\ rulesResult.scores[b] < 1000

BandIndex(p) == CHOOSE i \in 1..Len(BandOrder) : BandOrder[i] = p

\* C9: the band returned has the maximum score of the four bands, that
\* maximum is the confidence, and among several bands with the same maximum
\* greater than 0 the earliest of P0, P1, P2, P3 is returned.
C9_WinnerIsFirstMaximum ==
    Evaluated =>
        /\ rulesResult.priority \in BandSet
        /\ rulesResult.scores[rulesResult.priority] = rulesResult.confidence
        /\ \A p \in BandSet : rulesResult.scores[p] <= rulesResult.confidence
        /\ rulesResult.confidence > 0 =>
              \A j \in 1..(BandIndex(rulesResult.priority) - 1) :
                  rulesResult.scores[BandOrder[j]] < rulesResult.confidence

\* C9 witness: two or more bands share a maximum greater than 0 and a band
\* other than the last of them is returned.
C9_Witness ==
    /\ Evaluated
    /\ rulesResult.confidence > 0
    /\ \E p \in BandSet :
          /\ p # rulesResult.priority
          /\ rulesResult.scores[p] = rulesResult.confidence
          /\ BandIndex(p) > BandIndex(rulesResult.priority)

\* the ticket "How do I export my data?", tier trial, age 10 hours
ScenarioB ==
    [content |-> toLowerCase("How do I export my data?"),
     customer |-> [tier |-> "trial"],
     timing |-> [hoursSinceCreated |-> [nan |-> FALSE, sec |-> 10 * Hour]]]

\* C10 (as claimed): the ticket "How do I export my data?", tier trial, age
\* 10 hours, is classified by the rule evaluator as band P2.
C10_ScenarioB_IsP2 ==
    (Evaluated /\ threadData = ScenarioB) => rulesResult.priority = "P2"

\* C10 (amended): that ticket is classified as band P1 with confidence 0.5:
\* no keyword of any band occurs in it, tier trial adds 0.3 to P1, P2 and P3,
\* and 10 hours exceeds the response threshold of P0 and P1 only.
C10_ScenarioB_IsP1 ==
    (Evaluated /\ threadData = ScenarioB) =>
        /\ rulesResult.priority = "P1"
        /\ rulesResult.confidence = 500
        /\ \A b \in BandSet : KeywordsOccurring(b) = {}

\* C10 witness: scenario B has been evaluated.
C10_Witness == Evaluated /\ threadData = ScenarioB

\* the ticket "The site is completely down for everyone", tier pro, age 0
ScenarioA ==
    [content |-> toLowerCase("The site is completely down for everyone"),
     customer |-> [tier |-> "pro"],
     timing |-> [hoursSinceCreated |-> [nan |-> FALSE, sec |-> 0]]]

\* C11: a ticket of tier pro and age 0 whose lower-cased text contains the P0
\* keyword "down" and no keyword of any other band is classified by the rule
\* evaluator as band P0 with confidence at least 0.8.
C11_ScenarioA_IsP0 ==
    (/\ Evaluated
     /\ threadData.customer.tier = "pro"
     /\ threadData.timing.hoursSinceCreated = [nan |-> FALSE, sec |-> 0]
     /\ Includes(threadData.content, "down")
     /\ \A b \in BandSet \ {"P0"} : KeywordsOccurring(b) = {})
    => /\ rulesResult.priority = "P0"
       /\ rulesResult.confidence >= 800

\* C11 witness: scenario A has been evaluated.
C11_Witness == Evaluated /\ threadData = ScenarioA

Repeated == pc = "repeated"

-----------------------------------------------------------------------------
(* Properties of the response parser (SpecParse) *)

\* min(max(s, lo_b), hi_b) for the declared range of band b
ClampToBand(s, b) ==
    LET lo == CASE b = "P0" -> 0 [] b = "P1" -> 151 [] b = "P2" -> 401 [] b = "P3" -> 701
        hi == CASE b = "P0" -> 150 [] b = "P1" -> 400 [] b = "P2" -> 700 [] b = "P3" -> 1000
    IN IF s < lo THEN lo ELSE IF s > hi THEN hi ELSE s

\* C7 (as claimed): for every response whose priority_band is a valid band b
\* and whose priority_score is an integer s, parseClaudeResponse keeps b and
\* returns the score clamped into b's range; it never rejects a response
\* because of the value of its score.
C7_ParseClampsEveryScore ==
    pc = "parsed" =>
        \A l \in Layouts, s \in ScoreSamples, b \in BandSet :
            claudeResponse = FormatResponse(l, s, b) =>
                /\ parsed.kind = "return"
                /\ parsed.value.priorityBand = b
                /\ parsed.value.priorityScore = ClampToBand(s, b)

-----------------------------------------------------------------------------
(* Properties of the historical context (SpecContext) *)

StoreFails == ~store.isConnected \/ store.queryFails

\* C15: when the fetch of recent tickets fails, or the store is not connected,
\* getHistoricalContext returns an empty sequence, and the prompt is built with
\* zero historical examples (the ticket and the reference examples only).
C15_ContextSoftFails ==
    StoreFails =>
        /\ pc \in {"validated", "context", "prompt"}
        /\ pc \in {"context", "prompt"} => context = <<>>
        /\ pc = "prompt" =>
              /\ ~Includes(prompt, "Example 1:")
              /\ ~Includes(prompt, "recent ticket classifications")
              /\ Includes(prompt, "Ticket: \"" \o MessageOf(thread).text \o "\"")
              /\ Includes(prompt, "Here are some reference examples:")

\* C15 witness: the store holds rows, the fetch fails, the prompt was built.
C15_Witness ==
    /\ pc = "prompt"
    /\ store.isConnected
    /\ store.queryFails
    /\ Len(store.rows) > 0
    /\ context = <<>>

-----------------------------------------------------------------------------
(* Properties of the audit store (SpecStore) *)

RowsOf(threadId) == {i \in 1..Len(store.rows) : store.rows[i].thread_id = threadId}

\* C18: after any sequence of saveTicket calls the audit store holds at most
\* one row per thread id, and that row's score, band and reasoning are those
\* of the most recent successful save for that id.
C18_OneRowPerThread ==
    \A id \in ThreadIds :
        /\ Cardinality(RowsOf(id)) <= 1
        /\ lastSave[id].saved <=> RowsOf(id) # {}
        /\ \A i \in RowsOf(id) :
              /\ store.rows[i].priority_score = lastSave[id].priorityScore
              /\ store.rows[i].priority_band = lastSave[id].priorityBand
              /\ store.rows[i].reasoning = lastSave[id].reasoning

\* C18 witness: both threads have a row, and the row of th_1 was written by
\* one save and overwritten by a later save that carried another message.
C18_Witness ==
    /\ Len(store.rows) = 2
    /\ \E i \in RowsOf("th_1") :
          /\ store.rows[i].first_message # lastSave["th_1"].firstMessage
          /\ store.rows[i].priority_score = lastSave["th_1"].priorityScore


-----------------------------------------------------------------------------
(* Properties of the webhook endpoint (SpecWebhook) *)

\* the request was answered after its event was processed
Processed == pc = "responded" /\ httpResponse.status \in {200, 500} /\ request.signature = "valid" /\ request.body = "ok"

ThreadCreated ==
    /\ Processed
    /\ request.handler = "express"
    /\ request.event.type = "thread.thread_created"
    /\ request.event.hasThread

BelowThreshold(confidence) ==
    \/ confidence.type = "number" /\ confidence.num < 700
    \/ confidence.type = "string" /\ confidence.str \in {"low", "none"}

\* C16: no label call is made for a classification whose confidence is a
\* number below 0.7 or one of the strings 'low' and 'none'
C16_NoLabelBelowThreshold ==
    \A i \in 1..Len(labelCalls) : ~BelowThreshold(labelCalls[i].confidence)

\* a thread-created event whose classification came back with confidence
\* 'low' was answered without a label call
C16_Witness ==
    /\ ThreadCreated
    /\ outcome.kind = "return"
    /\ outcome.value.confidence = ConfString("low")
    /\ labelCalls = <<>>

\* C17: a verified thread-created event is answered 200, whatever the
\* classification and the label call did
C17_ThreadCreatedAnswers200 ==
    ThreadCreated => httpResponse.status = 200

\* the label call of a thread-created event failed and the answer was 200
C17_Witness ==
    /\ ThreadCreated
    /\ labelCalls # <<>>
    /\ labelCalls[1].failed
    /\ httpResponse.status = 200

\* C19: a request whose signature header is missing or does not verify is
\* answered 401, and nothing is classified, labelled or saved for it
C19_UnverifiedIsAnswered401 ==
    (pc = "responded" /\ request.method = "POST" /\ request.signature # "valid")
        => /\ httpResponse.status = 401
           /\ outcome = NoOutcome
           /\ labelCalls = <<>>

-----------------------------------------------------------------------------
(* More properties of the strategy selection (SpecStrategy) *)

QuestionMarks(s) == Cardinality({i \in 1..Len(s) : SubSeq(s, i, i) = "?"})

\* a message of 50 to 99 characters with exactly one question mark and no
\* greeting prefix, in hybrid mode with the AI classifier available
SingleQuestion ==
    /\ Chosen
    /\ config.aiClassifierType = "hybrid"
    /\ isAvailable(config)
    /\ MessageOf(thread).type = "string"
    /\ Len(MessageOf(thread).text) \in 50..99
    /\ ~IsGreeting(MessageOf(thread).text)
    /\ QuestionMarks(MessageOf(thread).text) = 1

\* C21: in hybrid mode with the AI classifier available, a single question of
\* 50 to 99 characters (no greeting prefix, exactly one '?') is a simple case:
\* determineClassifierStrategy returns 'rules'.
C21_SingleQuestionGoesToRules == SingleQuestion => strategy = "rules"

-----------------------------------------------------------------------------
(* More properties of the hybrid selector (Spec) *)

\* the primary attempt of the chosen strategy failed: the classifier threw,
\* or, for the ai strategy, the text-generation call or the parsing of its
\* response failed
PrimaryAttemptFailed ==
    \/ primary.kind = "throw"
    \/ strategy = "ai" /\ aiAttempt.apiCalled /\ aiAttempt.error # Undefined

\* C22: every result of HybridPriorityClassifier.classifyThread carries the
\* chosen strategy (hybridStrategy) and a fallbackUsed flag, and fallbackUsed
\* is true exactly when the primary attempt of the chosen strategy failed.
C22_FallbackUsedTellsPrimaryFailure ==
    Classified =>
        /\ outcome.value.hybridStrategy = strategy
        /\ outcome.value.fallbackUsed \in {"true", "false"}
        /\ outcome.value.fallbackUsed = "true" <=> PrimaryAttemptFailed

-----------------------------------------------------------------------------
(* Properties of the classifier comparison (SpecCompare) *)

\* both classifiers returned a result and the metrics were calculated
Compared == pc = "compared" /\ ~comparison.null /\ comparison.calculated

\* C23: when both classifiers return a result, compareClassifiers reports
\* bandAgreement = true exactly when the AI classifier and the rule classifier
\* chose the same band for the ticket.
C23_BandAgreementTellsSameBand ==
    Compared =>
        (comparison.bandAgreement = "true"
            <=> comparison.ai.value.priorityBand = comparison.rules.value.priority)

-----------------------------------------------------------------------------
(* Properties of the ticket facts (SpecExtract) *)

Extracted == pc \in {"facts", "evaluated", "repeated"}

\* C24: the ticket age built by extractThreadData (timing.hoursSinceCreated)
\* and reported by classifyByRules (details.hoursOld) is never negative: a
\* creation timestamp later than the local clock gives age 0.
C24_AgeIsNeverNegative ==
    /\ (Extracted /\ ~threadData.timing.hoursSinceCreated.nan)
          => threadData.timing.hoursSinceCreated.sec >= 0
    /\ (pc \in {"evaluated", "repeated"} /\ ~rulesResult.details.hoursOld.nan)
          => rulesResult.details.hoursOld.sec >= 0
    /\ (Extracted /\ thread.createdAt.kind = "iso" /\ thread.createdAt.age < 0)
          => threadData.timing.hoursSinceCreated.sec = 0

-----------------------------------------------------------------------------
(* More properties of the historical context (SpecContext) *)

\* a text cut to 200 characters, with the marker when it was cut
CutTo200(text) ==
    IF Len(text) <= 200 THEN text ELSE SubSeq(text, 1, 200) \o "..."

\* C25: getHistoricalContext(limit) returns at most limit examples, newest
\* first, and the text of each example is the first message stored for that
\* ticket, cut to at most 200 characters with '...' appended when it was cut.
C25_ExamplesCarryFirstMessage ==
    (pc \in {"context", "prompt"} /\ ~StoreFails) =>
        /\ Len(context) <= slidingWindowSize
        /\ Len(context) = Min(slidingWindowSize, Len(store.rows))
        /\ \A i \in 1..Len(context) :
              /\ context[i].priority_score = store.rows[i].priority_score
              /\ context[i].first_message = CutTo200(store.rows[i].first_message)

-----------------------------------------------------------------------------
(* Properties of the deliveries for one thread (SpecDeliveries) *)

ClassifiedDeliveries ==
    {d \in DOMAIN deliveries : deliveries[d].pc \in {"classified", "saved", "done"}}

\* C26: whatever the number and the interleaving of the email-received and
\* chat-received deliveries for one thread id, the serverless handler
\* classifies the thread and calls addPriorityLabel for it at most once.
C26_ThreadIsLabelledAtMostOnce ==
    /\ Cardinality(ClassifiedDeliveries) <= 1
    /\ Len(labelCalls) <= 1

-----------------------------------------------------------------------------
(* Properties of the database connection (SpecDatabase) *)

\* the last initialize call was made with the store reachable, after an
\* earlier initialize call had failed because the store was unreachable
RetriedWhenReachable ==
    /\ dbCall.op \in {"webhook", "health"}
    /\ dbCall.afterFailure
    /\ dbCall.reachable

\* C27: after an initialize call has failed because the store was
\* unreachable, a later initialize call made when the store is reachable
\* establishes the connection: isConnected is true and the health endpoint
\* reports 'connected'.
C27_InitializeRecovers ==
    RetriedWhenReachable =>
        /\ store.isConnected
        /\ dbCall.op = "health" => dbCall.databaseStatus = "connected"

-----------------------------------------------------------------------------
(* Properties of the scores of AI and hybrid results (Spec) *)

\* a result that carries a numeric priorityScore and a priorityBand
Scored(result) ==
    /\ result.kind = "return"
    /\ result.value.priorityScore # NoNumber
    /\ result.value.priorityBand # Undefined

\* the score lies in the declared range of the band
ScoreInBand(result) ==
    ClampToBand(result.value.priorityScore, result.value.priorityBand)
        = result.value.priorityScore

\* C28: every result that carries a numeric priorityScore and a priorityBand
\* (a parsed AI result, the keyword fallback of the AI classifier, the
\* error-fallback of the hybrid selector) has its score in the declared range
\* of its band: P0 0-150, P1 151-400, P2 401-700, P3 701-1000.
C28_ScoreLiesInBandRange ==
    /\ Scored(primary) => ScoreInBand(primary)
    /\ Scored(outcome) => ScoreInBand(outcome)

\* C28 witness: the endpoint answered 900 with band P1 and the result carries
\* 400.
C28_Witness ==
    /\ pc = "done"
    /\ aiAttempt.ran
    /\ aiAttempt.error = Undefined
    /\ Scored(outcome)
    /\ outcome.value.priorityBand = "P1"
    /\ outcome.value.priorityScore = 400

-----------------------------------------------------------------------------
(* Properties of the audit rows of the webhook flow (SpecWebhook) *)

\* C29: every audit row written by the webhook flow stores a score in the
\* declared 0-1000 range of its band (P0 0-150, P1 151-400, P2 401-700,
\* P3 701-1000).
C29_AuditRowScoreLiesInBandRange ==
    \A i \in 1..Len(store.rows) :
        /\ store.rows[i].priority_band \in BandSet
        /\ ClampToBand(store.rows[i].priority_score, store.rows[i].priority_band)
               = store.rows[i].priority_score

-----------------------------------------------------------------------------
(* Properties of the optional AI enhancement of the rule classifier (Spec) *)

\* PriorityClassifier.classifyThread has run with the AI enhancement
\* enabled, for a ticket whose rule confidence is 0.7 or more
EnhancedConfident ==
    /\ pc = "done"
    /\ strategy = "rules"
    /\ config.openaiApiKey # Undefined
    /\ primary.kind = "return"
    /\ primary.value.rulesResult.confidence >= 700

====
